---------------------------- MODULE Spec2Model ----------------------------
(***************************************************************************)
(* A model of the Python layer of librascal: the farthest point sampling   *)
(* wrapper (rascal/utils/fps.py), the BaseIO serialization protocol        *)
(* (bindings/rascal/utils/io.py), the hyperparameter handling, species    *)
(* keys, coefficient counts, constructor arguments and init params of the  *)
(* descriptor classes (bindings/rascal/representations), and the command   *)
(* line and the fit_save_model function of the fitting script              *)
(* (scripts/fit_gap.py).                                                   *)
(*                                                                         *)
(* Python values are modelled as tagged records, Python dictionaries as    *)
(* functions from key strings to values, Python lists and numpy arrays as  *)
(* sequences, None as the empty sequence <<>> and Some(x) as <<x>>.        *)
(* A call that raises is modelled by a result record whose status names    *)
(* the exception.                                                          *)
(***************************************************************************)
EXTENDS Integers, Sequences, FiniteSets, TLC

VARIABLES
    fps_fm,       \* feature_matrix: a sequence of rows (points)
    fps_start,    \* starting_index: <<>> (None) or <<i>>
    fps_method,   \* method of the first call
    fps_n1,       \* n_select of the first call
    fps_first,    \* what the first call of fps returned or raised
    fps_n2,       \* n_select of the restart call
    fps_second,   \* what the restart call of fps returned or raised
    fps_pc,       \* "init" | "called" | "restarted"
    io_obj,       \* the object that is serialized
    io_cand,      \* a value handed to the record validity check; it is
                  \* also what the file old.json holds
    io_fs,        \* the files on disk: path -> content
    io_fn,        \* the file name of the last to_file / from_file
    io_rec,       \* what to_dict returned or raised
    io_res,       \* what the last operation returned or raised
    io_pc,        \* "init" | "dict" | "undict" | "saved" | "loaded" | ...
    hyp_desc,     \* a descriptor, or the exception its constructor raised
    hyp_before,   \* its hyperparameters before the last update
    hyp_kw,       \* the keyword arguments of the last update
    hyp_pc,       \* "built" | "updated"
    sp_cls,       \* the descriptor class that is constructed
    sp_args,      \* the arguments of the constructor
    sp_desc,      \* what the constructor returned or raised
    sp_warned,    \* whether the constructor logged a deprecation warning
    sp_parsed,    \* what _parse_species_list(species_list) returned or
                  \* raised
    sp_pc,        \* "init" | "built" | "parsed"
    cf_cls,       \* the class of the descriptor that is asked
    cf_hypers,    \* its hyperparameters
    cf_op,        \* the last method called on it
    cf_arg,       \* the argument of that call
    cf_res,       \* what that call returned or raised
    cl_argv,      \* the options given on the command line of fit_gap.py:
                  \* option -> the strings that follow it
    cl_doc,       \* the JSON parameter document: key -> value
    cl_res,       \* what parse_command_line returned or raised
    cl_pc,        \* "init" | "parsed"
    ct_default,   \* the default values of the constructors' signatures:
                  \* class -> the objects bound to
                  \* cutoff_function_parameters and optimization_args
    ct_caller,    \* the dictionaries the caller holds and passes for
                  \* these two parameters
    ct_log,       \* the constructions so far, in order
    ft_params,    \* session -> the parameters handed to fit_save_model
    ft_pc,        \* session -> where its fit_save_model stands
    ft_local,     \* session -> the local variables of its fit_save_model
    ft_res,       \* session -> what its fit_save_model returned or raised
    ft_files,     \* the files written: who wrote which file where
    gaptools_WORKDIR   \* the attribute WORKDIR of the module gaptools

fps_vars == <<fps_fm, fps_start, fps_method, fps_n1, fps_first, fps_n2,
              fps_second, fps_pc>>

io_vars == <<io_obj, io_cand, io_fs, io_fn, io_rec, io_res, io_pc>>

hyp_vars == <<hyp_desc, hyp_before, hyp_kw, hyp_pc>>

sp_vars == <<sp_cls, sp_args, sp_desc, sp_warned, sp_parsed, sp_pc>>

cf_vars == <<cf_cls, cf_hypers, cf_op, cf_arg, cf_res>>

cl_vars == <<cl_argv, cl_doc, cl_res, cl_pc>>

ct_vars == <<ct_default, ct_caller, ct_log>>

ft_vars == <<ft_params, ft_pc, ft_local, ft_res, ft_files,
             gaptools_WORKDIR>>

vars == <<fps_vars, io_vars, hyp_vars, sp_vars, cf_vars, cl_vars, ct_vars,
          ft_vars>>

\* what the operations of one part of the library leave alone
not_fps_vars == <<io_vars, hyp_vars, sp_vars, cf_vars, cl_vars,
    ct_vars, ft_vars>>
not_io_vars == <<fps_vars, hyp_vars, sp_vars, cf_vars, cl_vars,
    ct_vars, ft_vars>>
not_hyp_vars == <<fps_vars, io_vars, sp_vars, cf_vars, cl_vars,
    ct_vars, ft_vars>>
not_sp_vars == <<fps_vars, io_vars, hyp_vars, cf_vars, cl_vars,
    ct_vars, ft_vars>>
not_cf_vars == <<fps_vars, io_vars, hyp_vars, sp_vars, cl_vars,
    ct_vars, ft_vars>>
not_cl_vars == <<fps_vars, io_vars, hyp_vars, sp_vars, cf_vars,
    ct_vars, ft_vars>>
not_ct_vars == <<fps_vars, io_vars, hyp_vars, sp_vars, cf_vars, cl_vars,
    ft_vars>>
not_ft_vars == <<fps_vars, io_vars, hyp_vars, sp_vars, cf_vars, cl_vars,
    ct_vars>>

-----------------------------------------------------------------------------
(* Bounds of the model *)

MaxRows == 3
MaxCoord == 2
MaxListLen == 2
MaxUpdateKeys == 2
MaxRadial == 2
MaxAngular == 2
MaxSpecies == 2
MaxGiven == 2
MaxSupplied == 2

-----------------------------------------------------------------------------
(* Generic helpers *)

Max(a, b) == IF a >= b THEN a ELSE b
Min(a, b) == IF a <= b THEN a ELSE b

RECURSIVE SeqMax(_)
SeqMax(s) == IF Len(s) = 1 THEN s[1] ELSE Max(s[1], SeqMax(Tail(s)))

\* numpy / Eigen argmax: the lowest (0-based) index that holds the maximum
ArgMax(s) == CHOOSE i \in 0..(Len(s) - 1) :
                /\ s[i + 1] = SeqMax(s)
                /\ \A j \in 0..(i - 1) : s[j + 1] < s[i + 1]

NoneVal == <<>>
Some(x) == <<x>>

-----------------------------------------------------------------------------
(* Python values *)

IntVal(n) == [t |-> "int", i |-> n]

\* a string, held as os.path.splitext splits it: the part before the
\* extension, itself a sequence of the pieces that '-' joins, and the
\* extension (with its dot, or "" when there is none)
Str(stem, ext) == [t |-> "str", stem |-> stem, ext |-> ext]
S(x) == Str(<<x>>, "")

\* a numpy array of n float64 elements; c stands for its contents
Arr(n, c) == [t |-> "npy", n |-> n, c |-> c]
\* array.tolist(): the nested list holding the same elements
NList(n, c) == [t |-> "nlist", nn |-> n, cc |-> c]

List(l) == [t |-> "list", l |-> l]
Tup(l) == [t |-> "tuple", tl |-> l]
NoneV == [t |-> "none"]
Bool(b) == [t |-> "bool", b |-> b]
Dict(d) == [t |-> "dict", d |-> d]
EmptyDict == <<>>

\* an instance of a class that inherits from BaseIO
Obj(cls, ip, data) ==
    [t |-> "obj", class_name |-> cls, init_params |-> ip, data |-> data]

\* a raised exception
Err(e) == [t |-> "err", e |-> e]
IsErr(v) == v.t = "err"

\* the order in which the keys of a dictionary are iterated: insertion
\* order, which for the dictionaries of this model agrees with this order
KeySeq == <<"version", "class_name", "module_name", "init_params", "data",
            "tag", "kernel", "weights", "p", "w", "a", "b">>
KeyOrder(d) == SelectSeq(KeySeq, LAMBDA k : k \in DOMAIN d)

\* str.lower() on the pieces of a name
LowerAtom(a) ==
    CASE a = "Model" -> "model"
      [] a = "Part" -> "part"
      [] a = "SphericalInvariants" -> "sphericalinvariants"
      [] a = "SphericalExpansion" -> "sphericalexpansion"
      [] OTHER -> a
Lower(str) == Str([i \in 1..Len(str.stem) |-> LowerAtom(str.stem[i])],
                  str.ext)

-----------------------------------------------------------------------------
(* Farthest point sampling: the selection backend (lib.sparsification)     *)

\* a row of the feature matrix: two features
Points == (0..MaxCoord) \X (0..1)

\* squared Euclidean distance between two rows
d2(p, q) == (p[1] - q[1]) * (p[1] - q[1]) + (p[2] - q[2]) * (p[2] - q[2])

\* squared distances of every row to row i (0-based)
RowD2(fm, i) == [j \in 1..Len(fm) |-> d2(fm[j], fm[i + 1])]

\* element-wise minimum of two per-row distance vectors
VecMin(a, b) == [j \in 1..Len(a) |-> Min(a[j], b[j])]

\* the greedy loop of the simple selection: idx holds the rows selected so
\* far, mm the max-min distance recorded at each earlier step, lmin the
\* squared distance of every row to its nearest selected row
RECURSIVE FpsLoop(_, _, _, _, _)
FpsLoop(fm, n_select, idx, mm, lmin) ==
    IF Len(idx) >= n_select
    THEN [status |-> "ok",
          sparse_indices |-> idx,
          sparse_minmax_d2 |-> Append(mm, SeqMax(lmin)),
          lmin_d2 |-> lmin]
    ELSE LET inew == ArgMax(lmin)
         IN  FpsLoop(fm, n_select, Append(idx, inew),
                     Append(mm, lmin[inew + 1]),
                     VecMin(lmin, RowD2(fm, inew)))

\* the state a restart resumes from: the earlier selection, its recorded
\* steps but the last (recorded again when the next row is picked), and
\* the per-row minimum distances
RestartIdx(restart) == restart[1].sparse_indices
RestartMm(restart) ==
    SubSeq(restart[1].sparse_minmax_d2, 1,
           Len(restart[1].sparse_minmax_d2) - 1)
RestartLmin(restart) == restart[1].lmin_d2

\* a restart that recomputes the per-row distances from the first row only
sparsification_fps_forgetful(fm, n_select, start, restart) ==
    IF n_select > Len(fm)
    THEN [status |-> "bounds_error"]
    ELSE IF restart = NoneVal
         THEN FpsLoop(fm, n_select, <<start>>, <<>>, RowD2(fm, start))
         ELSE FpsLoop(fm, n_select, RestartIdx(restart), RestartMm(restart),
                      RowD2(fm, start))

\* sparsification.fps(feature_matrix, n_select, starting_index[, restart])
sparsification_fps(fm, n_select, start, restart) ==
    IF n_select > Len(fm)
    THEN [status |-> "bounds_error"]
    ELSE IF restart = NoneVal
         THEN FpsLoop(fm, n_select, <<start>>, <<>>, RowD2(fm, start))
         ELSE FpsLoop(fm, n_select, RestartIdx(restart), RestartMm(restart),
                      RestartLmin(restart))

\* the Voronoi loop: cell[j] is the position in idx of the selected row
\* that row j is nearest to; a row changes cell only when the new row is
\* strictly nearer
RECURSIVE VoronoiLoop(_, _, _, _, _, _)
VoronoiLoop(fm, n_select, idx, mm, lmin, cell) ==
    IF Len(idx) >= n_select
    THEN [status |-> "ok",
          sparse_indices |-> idx,
          sparse_minmax_d2 |-> Append(mm, SeqMax(lmin)),
          voronoi_indices |-> cell,
          voronoi_r2 |->
             [c \in 1..Len(idx) |->
                 SeqMax([j \in 1..Len(fm) |->
                            IF cell[j] = c - 1 THEN lmin[j] ELSE 0])]]
    ELSE LET inew == ArgMax(lmin)
             newd == RowD2(fm, inew)
         IN  VoronoiLoop(fm, n_select, Append(idx, inew),
                         Append(mm, lmin[inew + 1]),
                         VecMin(lmin, newd),
                         [j \in 1..Len(fm) |->
                             IF newd[j] < lmin[j] THEN Len(idx)
                                                  ELSE cell[j]])

\* sparsification.fps_voronoi(feature_matrix, n_select, starting_index)
sparsification_fps_voronoi(fm, n_select, start) ==
    IF n_select > Len(fm)
    THEN [status |-> "bounds_error"]
    ELSE VoronoiLoop(fm, n_select, <<start>>, <<>>, RowD2(fm, start),
                     [j \in 1..Len(fm) |-> 0])

-----------------------------------------------------------------------------
(* Farthest point sampling: the Python wrapper rascal.utils.fps.fps        *)

Methods == {"simple", "voronoi", "other"}

\* the wrapper with the second and the third returned value exchanged
fps_swapped(feature_matrix, n_select, starting_index, method, restart) ==
    LET si == IF starting_index = NoneVal THEN 0 ELSE starting_index[1]
        r == sparsification_fps(feature_matrix, n_select, si, restart)
    IN  IF method = "simple" /\ r.status = "ok"
        THEN [status |-> "ok", backend |-> "fps",
              sparse_indices |-> r.sparse_indices,
              sparse_minmax_d2 |-> r.lmin_d2,
              lmin_d2 |-> r.sparse_minmax_d2]
        ELSE [status |-> "Exception", backend |-> "none"]

\* a wrapper that takes every method but 'voronoi' for 'simple'
fps_any_method(feature_matrix, n_select, starting_index, method, restart) ==
    LET si == IF starting_index = NoneVal THEN 0 ELSE starting_index[1]
    IN  IF method # "voronoi"
        THEN LET r == sparsification_fps(feature_matrix, n_select, si,
                                         restart)
             IN  IF r.status = "ok"
                 THEN [status |-> "ok", backend |-> "fps",
                       sparse_indices |-> r.sparse_indices,
                       sparse_minmax_d2 |-> r.sparse_minmax_d2,
                       lmin_d2 |-> r.lmin_d2]
                 ELSE [status |-> r.status, backend |-> "fps"]
        ELSE LET r == sparsification_fps_voronoi(feature_matrix, n_select, si)
             IN  IF r.status = "ok"
                 THEN [status |-> "UnboundLocalError",
                       backend |-> "fps_voronoi"]
                 ELSE [status |-> r.status, backend |-> "fps_voronoi"]

\* a wrapper that asks the backend for no more rows than there are
fps_clamping(feature_matrix, n_select, starting_index, method, restart) ==
    LET si == IF starting_index = NoneVal THEN 0 ELSE starting_index[1]
        n == Min(n_select, Len(feature_matrix))
    IN  IF method = "simple"
        THEN LET r == sparsification_fps(feature_matrix, n, si, restart)
             IN  IF r.status = "ok"
                 THEN [status |-> "ok", backend |-> "fps",
                       sparse_indices |-> r.sparse_indices,
                       sparse_minmax_d2 |-> r.sparse_minmax_d2,
                       lmin_d2 |-> r.lmin_d2]
                 ELSE [status |-> r.status, backend |-> "fps"]
        ELSE IF method = "voronoi"
        THEN LET r == sparsification_fps_voronoi(feature_matrix, n, si)
             IN  IF r.status = "ok"
                 THEN [status |-> "UnboundLocalError",
                       backend |-> "fps_voronoi"]
                 ELSE [status |-> r.status, backend |-> "fps_voronoi"]
        ELSE [status |-> "Exception", backend |-> "none"]

\* fps(feature_matrix, n_select, starting_index, method, restart): a
\* result with status "ok" is the returned triple; the name lmin_d2 is
\* bound in the 'simple' branch only, so the return statement raises
\* after the 'voronoi' branch
fps(feature_matrix, n_select, starting_index, method, restart) ==
    LET si == IF starting_index = NoneVal THEN 0 ELSE starting_index[1]
    IN  IF method = "simple"
        THEN LET r == IF restart = NoneVal
                      THEN sparsification_fps(feature_matrix, n_select, si,
                                              NoneVal)
                      ELSE sparsification_fps(feature_matrix, n_select, si,
                                              restart)
             IN  IF r.status = "ok"
                 THEN [status |-> "ok", backend |-> "fps",
                       sparse_indices |-> r.sparse_indices,
                       sparse_minmax_d2 |-> r.sparse_minmax_d2,
                       lmin_d2 |-> r.lmin_d2]
                 ELSE [status |-> r.status, backend |-> "fps"]
        ELSE IF method = "voronoi"
        THEN LET r == sparsification_fps_voronoi(feature_matrix, n_select, si)
             IN  IF r.status = "ok"
                 THEN [status |-> "UnboundLocalError",
                       backend |-> "fps_voronoi"]
                 ELSE [status |-> r.status, backend |-> "fps_voronoi"]
        ELSE [status |-> "Exception", backend |-> "none"]

NoResult == [status |-> "none"]

FeatureMatrices ==
    UNION {[1..n -> Points] : n \in 1..MaxRows}

FpsInit ==
    /\ fps_fm \in FeatureMatrices
    /\ fps_start \in {NoneVal} \cup {Some(i) : i \in 0..(Len(fps_fm) - 1)}
    /\ fps_method = "none"
    /\ fps_n1 = 0
    /\ fps_first = NoResult
    /\ fps_n2 = 0
    /\ fps_second = NoResult
    /\ fps_pc = "init"

FpsIdle ==
    /\ fps_fm = <<>>
    /\ fps_start = NoneVal
    /\ fps_method = "none"
    /\ fps_n1 = 0
    /\ fps_first = NoResult
    /\ fps_n2 = 0
    /\ fps_second = NoResult
    /\ fps_pc = "idle"

\* a first call of fps, without restart
FpsCall ==
    /\ fps_pc = "init"
    /\ \E method \in Methods, n \in 1..(Len(fps_fm) + 1) :
          /\ fps_method' = method
          /\ fps_n1' = n
          /\ fps_first' = fps(fps_fm, n, fps_start, method, NoneVal)
    /\ fps_pc' = "called"
    /\ UNCHANGED <<fps_fm, fps_start, fps_n2, fps_second>>
    /\ UNCHANGED not_fps_vars

\* a second call of fps on the same data, in restart mode, handing back
\* the triple the first call returned and asking for more rows in total
FpsRestart ==
    /\ fps_pc = "called"
    /\ fps_first.status = "ok"
    /\ \E n \in (fps_n1 + 1)..(Len(fps_fm) + 1) :
          /\ fps_n2' = n
          /\ fps_second' = fps(fps_fm, n, fps_start, fps_method,
                               Some(fps_first))
    /\ fps_pc' = "restarted"
    /\ UNCHANGED <<fps_fm, fps_start, fps_method, fps_n1, fps_first>>
    /\ UNCHANGED not_fps_vars

FpsNext == FpsCall \/ FpsRestart

-----------------------------------------------------------------------------
(* Claims about farthest point sampling *)

NonIncreasing(s) == \A i \in 1..(Len(s) - 1) : s[i] >= s[i + 1]

\* C1: for every feature matrix, n_select and starting index, the max-min
\* distances returned by fps with method 'simple' do not increase from one
\* selection step to the next
C1_MinMaxNonIncreasing ==
    (fps_pc = "called" /\ fps_method = "simple" /\ fps_first.status = "ok")
        => NonIncreasing(fps_first.sparse_minmax_d2)

\* a 'simple' selection of three rows whose recorded distances strictly
\* decrease
C1_Witness ==
    /\ fps_pc = "called"
    /\ fps_method = "simple"
    /\ fps_first.status = "ok"
    /\ fps_n1 = 3
    /\ fps_first.sparse_minmax_d2[1] > fps_first.sparse_minmax_d2[2]
    /\ fps_first.sparse_minmax_d2[2] > fps_first.sparse_minmax_d2[3]

\* C2: k1 selections followed by a restart for k2 more select the same
\* rows, in the same order, as one call for k1 + k2 selections
C2_RestartEquivalence ==
    (fps_pc = "restarted" /\ fps_second.status = "ok")
        => /\ fps(fps_fm, fps_n2, fps_start, "simple", NoneVal).status = "ok"
           /\ fps_second.sparse_indices =
                 fps(fps_fm, fps_n2, fps_start, "simple",
                     NoneVal).sparse_indices

\* a restart after two selections that adds a third, distinct row
C2_Witness ==
    /\ fps_pc = "restarted"
    /\ fps_second.status = "ok"
    /\ fps_n1 = 2
    /\ fps_n2 = 3
    /\ Cardinality({fps_second.sparse_indices[i] : i \in 1..3}) = 3

\* C3: fps with method 'voronoi' returns the triple and selects the rows
\* that method 'simple' selects on the same inputs
C3_VoronoiReturnsSimpleSelection ==
    (fps_pc = "called" /\ fps_method = "voronoi" /\ fps_n1 <= Len(fps_fm))
        => /\ fps_first.status = "ok"
           /\ fps_first.sparse_indices =
                 fps(fps_fm, fps_n1, fps_start, "simple",
                     NoneVal).sparse_indices


-----------------------------------------------------------------------------
(* Serialization: classes that inherit from BaseIO *)

\* classes that implement what BaseIO asks of a subclass: get_init_params,
\* _get_data and _set_data; a Model holds Parts
GenericClasses == {"Model", "Part"}
\* the descriptor classes of rascal.representations
DescriptorClasses == {"SphericalInvariants", "SphericalExpansion"}

\* the methods class BaseIO defines
BaseIOMethods == {"_get_state", "to_dict", "from_dict", "to_file",
                  "from_file", "_dump_npy", "_load_npy"}

\* the methods a class defines itself
ClassMethods(cls) ==
    IF cls \in DescriptorClasses
    THEN {"update_hyperparameters", "transform", "get_num_coefficients",
          "get_keys", "_get_init_params", "_set_data", "_get_data"}
    ELSE {"get_init_params", "_get_data", "_set_data"}

\* attribute lookup on an instance: the class, then BaseIO
HasMethod(cls, m) == m \in ClassMethods(cls) \cup BaseIOMethods

\* obj.get_init_params()
get_init_params(obj) ==
    IF HasMethod(obj.class_name, "get_init_params")
    THEN Dict(obj.init_params)
    ELSE Err("AttributeError")

\* obj._get_data(): the descriptor classes hand the call on to
\* super()._get_data()
get_data(obj) ==
    IF obj.class_name \in DescriptorClasses
    THEN IF "_get_data" \in BaseIOMethods
         THEN Dict(obj.data) ELSE Err("AttributeError")
    ELSE IF HasMethod(obj.class_name, "_get_data")
         THEN Dict(obj.data) ELSE Err("AttributeError")

\* obj._set_data(data): the descriptor classes hand the call on to
\* super()._set_data(data)
set_data(obj, data) ==
    IF obj.class_name \in DescriptorClasses
    THEN IF "_set_data" \in BaseIOMethods
         THEN [obj EXCEPT !.data = data] ELSE Err("AttributeError")
    ELSE [obj EXCEPT !.data = data]

\* BaseIO._get_state: dict(data=..., init_params=...), the data first
get_state(obj) ==
    LET data == get_data(obj)
    IN  IF IsErr(data) THEN data
        ELSE LET ip == get_init_params(obj)
             IN  IF IsErr(ip) THEN ip
                 ELSE [t |-> "state", data |-> data.d,
                       init_params |-> ip.d]

\* obj.__module__
ModuleOf(cls) ==
    CASE cls \in GenericClasses -> S("models")
      [] cls = "SphericalInvariants" -> S("spherical_invariants")
      [] cls = "SphericalExpansion" -> S("spherical_expansion")
      [] OTHER -> S("builtins")

\* the parameters the constructor of a class takes
InitKeys(cls) ==
    CASE cls = "Model" -> {"kernel"}
      [] cls = "Part" -> {"p"}
      [] OTHER -> {"max_radial"}

BETA_VERSION == Str(<<"0">>, ".1")
CURRENT_VERSION == BETA_VERSION
Versions == {BETA_VERSION}

valid_keys == <<"version", "class_name", "module_name", "init_params",
                "data">>

\* is_valid_object_dict_beta: one True is collected for every key of data
\* that is a valid key, and the count is compared with the number of
\* valid keys
is_valid_object_dict_beta(data) ==
    IF data.t = "dict"
    THEN Cardinality({k \in DOMAIN data.d :
                        \E i \in 1..Len(valid_keys) : valid_keys[i] = k})
            = Len(valid_keys)
    ELSE FALSE

\* obj2dict_beta(cls, state)
obj2dict_beta(cls, state) ==
    Dict([version |-> BETA_VERSION,
          class_name |-> S(cls),
          module_name |-> ModuleOf(cls),
          init_params |-> Dict(state.init_params),
          data |-> Dict(state.data)])

\* an exception raised while the values of a dictionary or the elements
\* of its lists were converted
FirstErr(d) ==
    LET bad == {k \in DOMAIN d :
                   \/ IsErr(d[k])
                   \/ (d[k].t = "list"
                       /\ \E i \in 1..Len(d[k].l) : IsErr(d[k].l[i]))}
    IN  IF bad = {} THEN <<>>
        ELSE LET k == CHOOSE x \in bad : TRUE
             IN  IF IsErr(d[k]) THEN <<d[k]>>
                 ELSE <<d[k].l[CHOOSE i \in 1..Len(d[k].l) :
                                  IsErr(d[k].l[i])]>>

RECURSIVE to_dict(_)

\* the list branch of to_dict that appends the converted entities only
to_dict_list_entities_only(l) ==
    LET ents == SelectSeq(l, LAMBDA e : e.t = "obj")
    IN  [i \in 1..Len(ents) |-> to_dict(ents[i])]

\* to_dict, the list branch: ll holds the record of every element that is
\* a BaseIO and every other element as it is, in the order of the list
to_dict_list(l) ==
    [i \in 1..Len(l) |-> IF l[i].t = "obj" THEN to_dict(l[i]) ELSE l[i]]

\* to_dict, one entry (init_params or data) of the state
to_dict_entry(entry) ==
    [k \in DOMAIN entry |->
        IF entry[k].t = "obj" THEN to_dict(entry[k])
        ELSE IF entry[k].t = "list" THEN List(to_dict_list(entry[k].l))
        ELSE entry[k]]

\* BaseIO.to_dict(obj)
to_dict(obj) ==
    LET state == get_state(obj)
    IN  IF IsErr(state) THEN state
        ELSE LET data == to_dict_entry(state.data)
                 ip == to_dict_entry(state.init_params)
             IN  IF FirstErr(data) # <<>> THEN FirstErr(data)[1]
                 ELSE IF FirstErr(ip) # <<>> THEN FirstErr(ip)[1]
                 ELSE obj2dict_beta(obj.class_name,
                                    [data |-> data, init_params |-> ip])

\* get_class(module_name, class_name) and cls(**init_params)
construct(module_name, class_name, init_params) ==
    IF class_name.t # "str" \/ module_name.t # "str"
    THEN Err("TypeError")
    ELSE IF class_name.ext # "" \/ Len(class_name.stem) # 1
            \/ class_name.stem[1] \notin GenericClasses \cup DescriptorClasses
            \/ ModuleOf(class_name.stem[1]) # module_name
    THEN Err("ImportError")
    ELSE IF init_params.t # "dict"
            \/ DOMAIN init_params.d # InitKeys(class_name.stem[1])
    THEN Err("TypeError")
    ELSE Obj(class_name.stem[1], init_params.d, EmptyDict)

\* dict2obj_beta(data)
dict2obj_beta(data) ==
    IF ~ ({"module_name", "class_name", "init_params", "data"}
             \subseteq DOMAIN data)
    THEN Err("KeyError")
    ELSE LET obj == construct(data["module_name"], data["class_name"],
                              data["init_params"])
         IN  IF IsErr(obj) THEN obj
             ELSE IF data["data"].t # "dict" THEN Err("TypeError")
             ELSE set_data(obj, data["data"].d)

RECURSIVE from_dict(_)

\* from_dict, one value of an entry
from_dict_value(v) ==
    IF is_valid_object_dict_beta(v) THEN from_dict(v)
    ELSE IF v.t = "list"
    THEN List([i \in 1..Len(v.l) |->
                  IF is_valid_object_dict_beta(v.l[i])
                  THEN from_dict(v.l[i]) ELSE v.l[i]])
    ELSE v

\* BaseIO.from_dict(data), data a dictionary
from_dict(data) ==
    IF "version" \notin DOMAIN data.d THEN Err("KeyError")
    ELSE IF data.d["version"] \notin Versions THEN Err("KeyError")
    ELSE LET conv == [name \in DOMAIN data.d |->
                        IF data.d[name].t = "dict"
                        THEN LET e == [k \in DOMAIN data.d[name].d |->
                                          from_dict_value(data.d[name].d[k])]
                             IN  IF FirstErr(e) # <<>> THEN FirstErr(e)[1]
                                 ELSE Dict(e)
                        ELSE data.d[name]]
         IN  IF FirstErr(conv) # <<>> THEN FirstErr(conv)[1]
             ELSE dict2obj_beta(conv)


-----------------------------------------------------------------------------
(* Serialization: files *)

\* an absolute path: directory, name without extension (the pieces that
\* '-' joins) and extension
Path(dir, stem, ext) == [dir |-> dir, stem |-> stem, ext |-> ext]

\* os.path.basename, as a string
Basename(path) == Str(path.stem, path.ext)
\* os.path.join(directory, string)
Join(dir, str) == Path(dir, str.stem, str.ext)

\* a + '-' + b, for a string a without extension
DashJoin(a, b) == Str(a.stem \o b.stem, b.ext)

\* a file that was opened for writing and not written completely
Partial == [t |-> "partial"]

Put(fs, path, content) ==
    [q \in DOMAIN fs \cup {path} |-> IF q = path THEN content ELSE fs[q]]

LargeArrayBytes == 50000000

is_npy(data) == data.t = "npy"
\* ndarray.nbytes of a float64 array
nbytes(data) == 8 * data.n

\* an is_large_array that also counts an array of exactly the threshold
is_large_array_inclusive(data) ==
    IF is_npy(data)
    THEN IF nbytes(data) >= LargeArrayBytes THEN TRUE ELSE FALSE
    ELSE FALSE

is_large_array(data) ==
    IF is_npy(data)
    THEN IF nbytes(data) > LargeArrayBytes THEN TRUE ELSE FALSE
    ELSE FALSE

is_npy_filename(fn) ==
    IF fn.t = "str"
    THEN IF fn.ext = ".npy" THEN TRUE ELSE FALSE
    ELSE FALSE

\* np.array(x)
np_array(x) == IF x.t = "nlist" THEN Arr(x.nn, x.cc) ELSE Arr(1, x)

\* whether json.dump accepts a value
RECURSIVE JsonSerializable(_)
JsonSerializable(v) ==
    CASE v.t \in {"int", "str", "nlist", "none", "bool"} -> TRUE
      [] v.t = "list" -> \A i \in 1..Len(v.l) : JsonSerializable(v.l[i])
      [] v.t = "tuple" -> \A i \in 1..Len(v.tl) : JsonSerializable(v.tl[i])
      [] v.t = "dict" -> \A k \in DOMAIN v.d : JsonSerializable(v.d[k])
      [] OTHER -> FALSE

\* what json.load reads back from what json.dump wrote: a tuple is
\* written as an array and read back as a list
RECURSIVE JsonRoundTrip(_)
JsonRoundTrip(v) ==
    CASE v.t = "list" -> List([i \in 1..Len(v.l) |-> JsonRoundTrip(v.l[i])])
      [] v.t = "tuple" ->
            List([i \in 1..Len(v.tl) |-> JsonRoundTrip(v.tl[i])])
      [] v.t = "dict" -> Dict([k \in DOMAIN v.d |-> JsonRoundTrip(v.d[k])])
      [] OTHER -> v

\* dump_json(fn, data): the file is opened, and so created or emptied,
\* before json.dump runs
dump_json(fn, data, fs) ==
    IF JsonSerializable(data)
    THEN [res |-> NoneV, fs |-> Put(fs, fn, JsonRoundTrip(data))]
    ELSE [res |-> Err("TypeError"), fs |-> Put(fs, fn, Partial)]

\* BaseIO._dump_npy(fn, data, class_name) over the keys of data that are
\* still to be visited; d is data as changed so far
RECURSIVE dump_npy(_, _, _, _, _)
dump_npy(fn, d, keys, class_name, fs) ==
    IF keys = <<>> THEN [d |-> d, fs |-> fs, err |-> ""]
    ELSE
    LET k == Head(keys)
        v == d[k]
    IN  IF v.t = "dict"
        THEN IF "class_name" \in DOMAIN d /\ d["class_name"].t # "str"
             THEN [d |-> d, fs |-> fs, err |-> "AttributeError"]
             ELSE
             LET cn == IF "class_name" \in DOMAIN d
                       THEN Lower(d["class_name"]) ELSE class_name
                 sub == dump_npy(fn, v.d, KeyOrder(v.d), cn, fs)
                 dd == [d EXCEPT ![k] = Dict(sub.d)]
             IN  IF sub.err # ""
                 THEN [d |-> dd, fs |-> sub.fs, err |-> sub.err]
                 ELSE dump_npy(fn, dd, Tail(keys), cn, sub.fs)
        ELSE IF is_large_array(v)
        THEN IF "tag" \in DOMAIN d /\ d["tag"].t # "str"
             THEN [d |-> d, fs |-> fs, err |-> "TypeError"]
             ELSE
             LET cn == IF "tag" \in DOMAIN d
                       THEN DashJoin(class_name, d["tag"]) ELSE class_name
                 v_fn == Path(fn.dir, fn.stem \o cn.stem \o <<k>>, ".npy")
             IN  dump_npy(fn, [d EXCEPT ![k] = Basename(v_fn)], Tail(keys),
                          cn, Put(fs, v_fn, v))
        ELSE IF is_npy(v)
        THEN dump_npy(fn,
                      [d EXCEPT ![k] = List(<<S("npy"), NList(v.n, v.c)>>)],
                      Tail(keys), class_name, fs)
        ELSE dump_npy(fn, d, Tail(keys), class_name, fs)

\* BaseIO._load_npy(data, path) over the keys still to be visited
RECURSIVE load_npy(_, _, _, _)
load_npy(d, keys, path, fs) ==
    IF keys = <<>> THEN [d |-> d, err |-> ""]
    ELSE
    LET k == Head(keys)
        v == d[k]
    IN  IF v.t = "dict"
        THEN LET sub == load_npy(v.d, KeyOrder(v.d), path, fs)
             IN  IF sub.err # "" THEN [d |-> d, err |-> sub.err]
                 ELSE load_npy([d EXCEPT ![k] = Dict(sub.d)], Tail(keys),
                               path, fs)
        ELSE IF is_npy_filename(v)
        THEN IF Join(path, v) \notin DOMAIN fs
             THEN [d |-> d, err |-> "FileNotFoundError"]
             ELSE IF fs[Join(path, v)].t # "npy"
             THEN [d |-> d, err |-> "ValueError"]
             ELSE load_npy([d EXCEPT ![k] = fs[Join(path, v)]], Tail(keys),
                           path, fs)
        ELSE IF v.t = "list" /\ Len(v.l) = 2 /\ v.l[1] = S("npy")
        THEN load_npy([d EXCEPT ![k] = np_array(v.l[2])], Tail(keys),
                      path, fs)
        ELSE load_npy(d, Tail(keys), path, fs)

\* a to_file that writes the arrays before it looks at the extension
to_file_dump_first(obj, fn, fs) ==
    LET data == to_dict(obj)
    IN  IF IsErr(data) THEN [res |-> data, fs |-> fs]
        ELSE
        LET r == dump_npy(fn, data.d, KeyOrder(data.d),
                          Lower(data.d["class_name"]), fs)
        IN  IF r.err # "" THEN [res |-> Err(r.err), fs |-> r.fs]
            ELSE IF fn.ext = ".json" THEN dump_json(fn, Dict(r.d), r.fs)
            ELSE [res |-> Err("NotImplementedError"), fs |-> r.fs]

\* BaseIO.to_file(fn) of obj: what it returns or raises, and the files
\* after it
to_file(obj, fn, fs) ==
    LET data == to_dict(obj)
    IN  IF IsErr(data) THEN [res |-> data, fs |-> fs]
        ELSE
        IF fn.ext = ".json"
        THEN LET r == dump_npy(fn, data.d, KeyOrder(data.d),
                               Lower(data.d["class_name"]), fs)
             IN  IF r.err # "" THEN [res |-> Err(r.err), fs |-> r.fs]
                 ELSE dump_json(fn, Dict(r.d), r.fs)
        ELSE [res |-> Err("NotImplementedError"), fs |-> fs]

\* BaseIO.from_file(fn): the object it returns, or what it raises
from_file(fn, fs) ==
    IF fn.ext = ".json"
    THEN IF fn \notin DOMAIN fs THEN Err("FileNotFoundError")
         ELSE IF fs[fn].t \in {"partial", "npy"} THEN Err("JSONDecodeError")
         ELSE
         LET data == fs[fn]
         IN  IF data.t # "dict" THEN Err("TypeError")
             ELSE IF "version" \notin DOMAIN data.d THEN Err("KeyError")
             ELSE IF data.d["version"] \notin Versions THEN Err("KeyError")
             ELSE IF is_valid_object_dict_beta(data)
             THEN LET r == load_npy(data.d, KeyOrder(data.d), fn.dir, fs)
                  IN  IF r.err # "" THEN Err(r.err)
                      ELSE from_dict(Dict(r.d))
             ELSE Err("RuntimeError")
    ELSE Err("NotImplementedError")


-----------------------------------------------------------------------------
(* Serialization: the objects, files and calls of the model *)

Scalars == {IntVal(1), S("s")}

\* element counts below, at and above the size from which an array of
\* float64 is large
ArraySizes == {1, 6250000, 6250001}
Arrays == {Arr(n, 7) : n \in ArraySizes}

Parts == {Obj("Part", [p |-> IntVal(1)], [w |-> x]) :
             x \in {IntVal(1)} \cup Arrays}

Lists == {List(l) :
             l \in UNION {[1..n -> Parts \cup Scalars] : n \in 0..MaxListLen}}

\* dictionaries that are no records
PlainDicts == {Dict([version |-> BETA_VERSION, data |-> IntVal(1)]),
               Dict([a |-> Arr(1, 7), b |-> S("s")])}

Tuples == {Tup(<<IntVal(1), IntVal(1)>>)}

Models == {Obj("Model", [kernel |-> x], [weights |-> y]) :
              x \in Scalars \cup Parts \cup Lists \cup PlainDicts \cup Tuples,
              y \in {IntVal(1)} \cup Arrays \cup Parts}

\* a Model whose data holds a tag and two arrays
TaggedModels == {Obj("Model", [kernel |-> IntVal(1)],
                     [tag |-> S("x"), weights |-> x, w |-> y]) :
                    x \in Arrays, y \in Arrays}

\* values of a field that are no arrays: a string that ends in .npy, and
\* a list of two elements whose first is the string 'npy'
LookAlikes == {Str(<<"notes">>, ".npy"), List(<<S("npy"), IntVal(1)>>)}
LookAlikeModels == {Obj("Model", [kernel |-> x], [weights |-> IntVal(1)]) :
                       x \in LookAlikes}

Descriptors == {Obj(c, [max_radial |-> IntVal(1)], EmptyDict) :
                   c \in DescriptorClasses}

DefaultObj == Obj("Part", [p |-> IntVal(1)], [w |-> IntVal(1)])

\* candidate records: every subset of the required keys and of one more
\* key, and values that are no dictionaries
FullRecord ==
    [k \in DOMAIN to_dict(DefaultObj).d \cup {"tag"} |->
        IF k = "tag" THEN S("x") ELSE to_dict(DefaultObj).d[k]]
Candidates ==
    {Dict([k \in K |-> FullRecord[k]]) : K \in SUBSET (DOMAIN FullRecord)}
       \cup {List(<<>>), IntVal(1)}
DefaultCand == Dict([k \in DOMAIN FullRecord \ {"tag"} |-> FullRecord[k]])

OldJson == Path("wd", <<"old">>, ".json")
SaveNames == {Path("wd", <<"m">>, e) : e \in {".json", ".txt", ""}}
OldNames == {OldJson, Path("wd", <<"old">>, ".txt"),
             Path("wd", <<"none">>, ".json")}
NoPath == Path("", <<>>, "")

\* the files before any call: old.json holds the candidate
InitialFiles(cand) == [q \in {OldJson} |-> cand]

IoInit ==
    /\ \/ /\ io_obj \in Models \cup TaggedModels \cup LookAlikeModels
                          \cup Descriptors
          /\ io_cand = DefaultCand
       \/ io_obj = DefaultObj /\ io_cand \in Candidates
    /\ io_fs = InitialFiles(io_cand)
    /\ io_fn = NoPath
    /\ io_rec = NoneV
    /\ io_res = NoneV
    /\ io_pc = "init"

IoIdle ==
    /\ io_obj = NoneV
    /\ io_cand = NoneV
    /\ io_fs = <<>>
    /\ io_fn = NoPath
    /\ io_rec = NoneV
    /\ io_res = NoneV
    /\ io_pc = "idle"

\* io_obj.to_dict()
IoToDict ==
    /\ io_pc = "init"
    /\ io_rec' = to_dict(io_obj)
    /\ io_pc' = "dict"
    /\ UNCHANGED <<io_obj, io_cand, io_fs, io_fn, io_res>>
    /\ UNCHANGED not_io_vars

\* from_dict(record) of the record to_dict returned
IoFromDict ==
    /\ io_pc = "dict"
    /\ ~ IsErr(io_rec)
    /\ io_res' = from_dict(io_rec)
    /\ io_pc' = "undict"
    /\ UNCHANGED <<io_obj, io_cand, io_fs, io_fn, io_rec>>
    /\ UNCHANGED not_io_vars

\* io_obj.to_file(fn)
IoToFile ==
    /\ io_pc = "init"
    /\ \E fn \in SaveNames :
          /\ io_fn' = fn
          /\ io_res' = to_file(io_obj, fn, io_fs).res
          /\ io_fs' = to_file(io_obj, fn, io_fs).fs
    /\ io_pc' = "saved"
    /\ UNCHANGED <<io_obj, io_cand, io_rec>>
    /\ UNCHANGED not_io_vars

\* from_file(fn) of the file name to_file was called with
IoFromFile ==
    /\ io_pc = "saved"
    /\ io_res' = from_file(io_fn, io_fs)
    /\ io_pc' = "loaded"
    /\ UNCHANGED <<io_obj, io_cand, io_fs, io_fn, io_rec>>
    /\ UNCHANGED not_io_vars

\* from_file(fn) of a file that was there before, or of none
IoFromFileOld ==
    /\ io_pc = "init"
    /\ \E fn \in OldNames :
          /\ io_fn' = fn
          /\ io_res' = from_file(fn, io_fs)
    /\ io_pc' = "loadedold"
    /\ UNCHANGED <<io_obj, io_cand, io_fs, io_rec>>
    /\ UNCHANGED not_io_vars

\* is_valid_object_dict[CURRENT_VERSION](io_cand)
IoCheckValid ==
    /\ io_pc = "init"
    /\ io_res' = Bool(is_valid_object_dict_beta(io_cand))
    /\ io_pc' = "checked"
    /\ UNCHANGED <<io_obj, io_cand, io_fs, io_fn, io_rec>>
    /\ UNCHANGED not_io_vars

IoNext ==
    \/ IoToDict
    \/ IoFromDict
    \/ IoToFile
    \/ IoFromFile
    \/ IoFromFileOld
    \/ IoCheckValid

-----------------------------------------------------------------------------
(* Claims about serialization *)

RequiredKeys == {valid_keys[i] : i \in 1..Len(valid_keys)}

\* the record of a value of the state: an entity became a record of its
\* class, a list kept its length, its order and its other elements
ConvertedAs(v, r) ==
    /\ v.t = "obj" =>
          /\ is_valid_object_dict_beta(r)
          /\ r.d["class_name"] = S(v.class_name)
    /\ v.t = "list" =>
          /\ r.t = "list"
          /\ Len(r.l) = Len(v.l)
          /\ \A i \in 1..Len(v.l) :
                IF v.l[i].t = "obj"
                THEN /\ is_valid_object_dict_beta(r.l[i])
                     /\ r.l[i].d["class_name"] = S(v.l[i].class_name)
                ELSE r.l[i] = v.l[i]

C5_FileRoundTrip ==
    /\ (io_pc = "saved" /\ io_fn.ext = ".json"
          /\ io_obj.class_name \in GenericClasses)
          => io_res = NoneV
    /\ (io_pc = "loaded" /\ io_fn.ext = ".json"
          /\ io_obj.class_name \in GenericClasses)
          => io_res = io_obj

\* C6: the validity check accepts a value iff it is a dictionary whose
\* keys are exactly the five required keys
C6_ValidIffExactKeys ==
    io_pc = "checked"
        => (io_res.b <=> (io_cand.t = "dict"
                            /\ DOMAIN io_cand.d = RequiredKeys))

\* C7: from_file of a .json file whose record lacks a required key raises
\* the malformed-record error
C7_MalformedRecordError ==
    (io_pc = "loadedold" /\ io_fn = OldJson /\ io_cand.t = "dict"
       /\ ~ (RequiredKeys \subseteq DOMAIN io_cand.d))
        => io_res = Err("RuntimeError")

C9_DescriptorToDict ==
    (io_pc = "dict" /\ io_obj.class_name \in DescriptorClasses)
        => is_valid_object_dict_beta(io_rec)

\* how a value of the object stands in the record that was written: an
\* array above 50 MB as the base name of a file next to the record that
\* holds the array, any other array as the pair ['npy', nested list];
\* entities and dictionaries entry by entry
RECURSIVE C24_Embedded(_, _)
C24_Embedded(orig, saved) ==
    CASE orig.t = "npy" ->
            IF 8 * orig.n > 50000000
            THEN /\ saved.t = "str"
                 /\ saved.ext = ".npy"
                 /\ Join(io_fn.dir, saved) \in DOMAIN io_fs
                 /\ io_fs[Join(io_fn.dir, saved)] = orig
            ELSE saved = List(<<S("npy"), NList(orig.n, orig.c)>>)
      [] orig.t = "obj" ->
            /\ saved.t = "dict"
            /\ \A k \in DOMAIN orig.init_params :
                  C24_Embedded(orig.init_params[k],
                               saved.d["init_params"].d[k])
            /\ \A k \in DOMAIN orig.data :
                  C24_Embedded(orig.data[k], saved.d["data"].d[k])
      [] orig.t = "dict" ->
            /\ saved.t = "dict"
            /\ \A k \in DOMAIN orig.d : C24_Embedded(orig.d[k], saved.d[k])
      [] OTHER -> TRUE

\* no array anywhere in a value that was written
RECURSIVE C24_NoRawArray(_)
C24_NoRawArray(v) ==
    CASE v.t = "npy" -> FALSE
      [] v.t = "list" -> \A i \in 1..Len(v.l) : C24_NoRawArray(v.l[i])
      [] v.t = "dict" -> \A k \in DOMAIN v.d : C24_NoRawArray(v.d[k])
      [] OTHER -> TRUE

\* C24: after a to_file that returned, an array of the object, at any
\* depth of nested dictionaries, is in a file of its own iff it has more
\* than 50e6 bytes; every other array is the pair ['npy', nested list] in
\* the record, the record that was written holds no array, and every
\* array file holds an array of more than 50e6 bytes
C24_SidecarIffLarge ==
    (io_pc = "saved" /\ io_res = NoneV)
        => /\ C24_Embedded(io_obj, io_fs[io_fn])
           /\ C24_NoRawArray(io_fs[io_fn])
           /\ \A q \in DOMAIN io_fs :
                 q.ext = ".npy" => /\ io_fs[q].t = "npy"
                                   /\ 8 * io_fs[q].n > 50000000

\* to_file("m.json") of a Model has returned; the Model holds an array
\* of 50e6 + 8 bytes, and its kernel is a Part that holds an array of
\* exactly 50e6 bytes
C24_Witness ==
    /\ io_pc = "saved"
    /\ io_res = NoneV
    /\ io_obj.class_name = "Model"
    /\ io_obj.data["weights"] = Arr(6250001, 7)
    /\ io_obj.init_params["kernel"].t = "obj"
    /\ io_obj.init_params["kernel"].data["w"] = Arr(6250000, 7)
    /\ Path("wd", <<"m", "model", "weights">>, ".npy") \in DOMAIN io_fs
    /\ io_fs[io_fn].d["init_params"].d["kernel"].d["data"].d["w"]
          = List(<<S("npy"), NList(6250000, 7)>>)

\* C25: after to_file of a Model, every large array of its data is in
\* the file <base>-<class>[-<tag>]-<field>.npy next to the record, the
\* tag once iff the data holds a tag, and the record that was written
\* holds the base name of that file
C25_SidecarNames ==
    (io_pc = "saved" /\ io_fn.ext = ".json" /\ io_obj.class_name = "Model")
        => \A k \in DOMAIN io_obj.data :
              (io_obj.data[k].t = "npy" /\ 8 * io_obj.data[k].n > 50000000)
                 => LET tag == IF "tag" \in DOMAIN io_obj.data
                               THEN io_obj.data["tag"].stem ELSE <<>>
                        name == Path(io_fn.dir,
                                     io_fn.stem \o <<"model">> \o tag
                                         \o <<k>>, ".npy")
                    IN  /\ name \in DOMAIN io_fs
                        /\ io_fs[name] = io_obj.data[k]
                        /\ io_res = NoneV
                              => io_fs[io_fn].d["data"].d[k] = Basename(name)

\* C22: a to_file that raised left no array file without a complete
\* record next to it
C22_NoOrphanSidecar ==
    (io_pc = "saved" /\ IsErr(io_res))
        => \A q \in DOMAIN io_fs :
              q.ext = ".npy" => /\ io_fn \in DOMAIN io_fs
                                /\ io_fs[io_fn].t = "dict"

\* C30: from_file of what to_file wrote returns a Model whose kernel is
\* the string, or the list of two scalars, that the kernel of the saved
\* Model was
C30_OnlyReferencesBecomeArrays ==
    (/\ io_pc = "loaded"
     /\ io_fn.ext = ".json"
     /\ io_obj.class_name = "Model"
     /\ io_obj.data = [weights |-> IntVal(1)]
     /\ \/ io_obj.init_params["kernel"].t = "str"
        \/ /\ io_obj.init_params["kernel"].t = "list"
           /\ Len(io_obj.init_params["kernel"].l) = 2
           /\ \A i \in 1..2 :
                 io_obj.init_params["kernel"].l[i].t \in {"int", "str"})
        => /\ io_res.t = "obj"
           /\ io_res.init_params["kernel"] = io_obj.init_params["kernel"]


-----------------------------------------------------------------------------
(* Descriptors: hyperparameters *)

SI_allowed_keys ==
    {"interaction_cutoff", "cutoff_smooth_width", "max_radial",
     "max_angular", "gaussian_sigma_type", "gaussian_sigma_constant",
     "soap_type", "inversion_symmetry", "cutoff_function", "normalize",
     "gaussian_density", "radial_contribution",
     "cutoff_function_parameters", "expansion_by_species_method",
     "compute_gradients", "global_species", "coefficient_subselection"}

SE_allowed_keys ==
    {"interaction_cutoff", "cutoff_smooth_width", "max_radial",
     "max_angular", "gaussian_sigma_type", "gaussian_sigma_constant",
     "gaussian_density", "cutoff_function", "radial_contribution",
     "compute_gradients", "cutoff_function_parameters",
     "expansion_by_species_method", "global_species"}

SOAP_allowed_keys ==
    {"interaction_cutoff", "cutoff_smooth_width", "max_radial",
     "max_angular", "gaussian_sigma_type", "gaussian_sigma_constant",
     "n_species", "soap_type", "normalize"}

allowed_keys(cls) ==
    CASE cls = "SphericalInvariants" -> SI_allowed_keys
      [] cls = "SphericalExpansion" -> SE_allowed_keys
      [] cls = "SOAP" -> SOAP_allowed_keys

\* dict.update: the entries of other replace or extend those of d
DictUpdate(d, other) ==
    [k \in DOMAIN d \cup DOMAIN other |->
        IF k \in DOMAIN other THEN other[k] ELSE d[k]]

DictRemove(d, key) == [k \in DOMAIN d \ {key} |-> d[k]]

\* an update that stores every keyword argument
update_hyperparameters_unfiltered(cls, hypers, kw) == DictUpdate(hypers, kw)

\* update_hyperparameters(**kw) of a descriptor of class cls: the
\* hyperparameters after the call
update_hyperparameters(cls, hypers, kw) ==
    LET hypers_clean ==
           [key \in {k \in DOMAIN kw : k \in allowed_keys(cls)} |-> kw[key]]
    IN  DictUpdate(hypers, hypers_clean)

\* isinstance(v, Iterable) for a value that is no string
IsIterable(v) == v.t \in {"list", "tuple", "dict"}

\* list(v) of an iterable
ToList(v) ==
    CASE v.t = "list" -> v
      [] v.t = "tuple" -> List(v.tl)
      [] v.t = "dict" -> List([i \in 1..Len(KeyOrder(v.d)) |->
                                  S(KeyOrder(v.d)[i])])

\* a parser that takes every string for an expansion method
parse_species_list_any_string(species_list) ==
    IF species_list.t = "str"
    THEN Dict([expansion_by_species_method |-> species_list,
               global_species |-> List(<<>>)])
    ELSE IF IsIterable(species_list)
         THEN Dict([expansion_by_species_method |-> S("user defined"),
                    global_species |-> ToList(species_list)])
         ELSE Err("ValueError")

\* _parse_species_list(species_list)
parse_species_list(species_list) ==
    IF species_list.t = "str"
    THEN IF species_list = S("environment wise")
            \/ species_list = S("structure wise")
         THEN Dict([expansion_by_species_method |-> species_list,
                    global_species |-> List(<<>>)])
         ELSE Err("ValueError")
    ELSE IF IsIterable(species_list)
         THEN Dict([expansion_by_species_method |-> S("user defined"),
                    global_species |-> ToList(species_list)])
         ELSE Err("ValueError")

\* whether the constructor logs the deprecation warning
deprecation_warning(a) ==
    a.expansion_by_species_method # NoneV \/ a.global_species # NoneV

\* a compatibility layer that reads global_species only next to
\* expansion_by_species_method
legacy_species_list_method_only(a) ==
    IF a.expansion_by_species_method # NoneV
    THEN IF a.expansion_by_species_method # S("user defined")
         THEN a.expansion_by_species_method
         ELSE IF a.global_species # NoneV
         THEN a.global_species
         ELSE Err("ValueError")
    ELSE a.species_list

\* the soft backwards compatibility of the constructors: the species_list
\* that is parsed
legacy_species_list(a) ==
    IF a.expansion_by_species_method # NoneV
    THEN IF a.expansion_by_species_method # S("user defined")
         THEN a.expansion_by_species_method
         ELSE IF a.global_species # NoneV
         THEN a.global_species
         ELSE Err("ValueError")
    ELSE IF a.global_species # NoneV
         THEN a.global_species
         ELSE a.species_list

\* base.cutoff_function_dict_switch(type, **parameters), as far as
\* _get_init_params reads its result
cutoff_function_dict_switch(type, params) ==
    Dict([type |-> type,
          cutoff |-> Dict([value |-> params["interaction_cutoff"],
                           unit |-> S("AA")]),
          smooth_width |-> Dict([value |-> params["cutoff_smooth_width"],
                                 unit |-> S("AA")])])

\* the optimization entry of radial_contribution
optimization_of(optimization_args) ==
    IF "type" \in DOMAIN optimization_args
    THEN IF optimization_args["type"] = S("Spline")
         THEN Dict([type |-> S("Spline"),
                    accuracy |-> IF "accuracy" \in DOMAIN optimization_args
                                 THEN optimization_args["accuracy"]
                                 ELSE S("1e-5")])
         ELSE Dict([type |-> S("None")])
    ELSE Dict([type |-> S("None")])

\* a constructed descriptor
Desc(cls, hypers, a) ==
    [t |-> "desc", cls |-> cls, hypers |-> hypers,
     cutoff_function_parameters |-> a.cutoff_function_parameters,
     optimization_args |-> a.optimization_args,
     warned |-> deprecation_warning(a)]

\* SphericalInvariants.__init__
SphericalInvariants_init(a) ==
    LET cls == "SphericalInvariants"
        h1 == update_hyperparameters(cls, EmptyDict,
                 [max_radial |-> a.max_radial,
                  max_angular |-> a.max_angular,
                  soap_type |-> a.soap_type,
                  normalize |-> a.normalize,
                  inversion_symmetry |-> a.inversion_symmetry,
                  expansion_by_species_method |->
                      a.expansion_by_species_method,
                  global_species |-> a.global_species,
                  compute_gradients |-> a.compute_gradients,
                  coefficient_subselection |-> a.coefficient_subselection])
        species_list == legacy_species_list(a)
        species_list_hypers == parse_species_list(species_list)
        h2 == update_hyperparameters(cls, h1, species_list_hypers.d)
        h3 == IF h2["coefficient_subselection"] = NoneV
              THEN DictRemove(h2, "coefficient_subselection") ELSE h2
        cutoff_function ==
            cutoff_function_dict_switch(a.cutoff_function_type,
                DictUpdate(a.cutoff_function_parameters,
                    [interaction_cutoff |-> a.interaction_cutoff,
                     cutoff_smooth_width |-> a.cutoff_smooth_width]))
        gaussian_density ==
            Dict([type |-> a.gaussian_sigma_type,
                  gaussian_sigma |->
                      Dict([value |-> a.gaussian_sigma_constant,
                            unit |-> S("AA")])])
        radial_contribution ==
            Dict([type |-> a.radial_basis,
                  optimization |-> optimization_of(a.optimization_args)])
        h4 == update_hyperparameters(cls, h3,
                 [cutoff_function |-> cutoff_function,
                  gaussian_density |-> gaussian_density,
                  radial_contribution |-> radial_contribution])
        h5 == IF a.soap_type = S("RadialSpectrum")
              THEN update_hyperparameters(cls, h4,
                                          [max_angular |-> IntVal(0)])
              ELSE h4
    IN  IF IsErr(species_list) THEN species_list
        ELSE IF IsErr(species_list_hypers) THEN species_list_hypers
        ELSE Desc(cls, h5, a)

\* SphericalExpansion.__init__
SphericalExpansion_init(a) ==
    LET cls == "SphericalExpansion"
        h1 == update_hyperparameters(cls, EmptyDict,
                 [max_radial |-> a.max_radial,
                  max_angular |-> a.max_angular,
                  expansion_by_species_method |->
                      a.expansion_by_species_method,
                  global_species |-> a.global_species,
                  compute_gradients |-> a.compute_gradients])
        cutoff_function ==
            cutoff_function_dict_switch(a.cutoff_function_type,
                DictUpdate(a.cutoff_function_parameters,
                    [interaction_cutoff |-> a.interaction_cutoff,
                     cutoff_smooth_width |-> a.cutoff_smooth_width]))
        species_list == legacy_species_list(a)
        species_list_hypers == parse_species_list(species_list)
        h2 == update_hyperparameters(cls, h1, species_list_hypers.d)
        gaussian_density ==
            Dict([type |-> a.gaussian_sigma_type,
                  gaussian_sigma |->
                      Dict([value |-> a.gaussian_sigma_constant,
                            unit |-> S("A")])])
        radial_contribution ==
            Dict([type |-> a.radial_basis,
                  optimization |-> optimization_of(a.optimization_args)])
        h3 == update_hyperparameters(cls, h2,
                 [cutoff_function |-> cutoff_function,
                  gaussian_density |-> gaussian_density,
                  radial_contribution |-> radial_contribution])
    IN  IF IsErr(species_list) THEN species_list
        ELSE IF IsErr(species_list_hypers) THEN species_list_hypers
        ELSE Desc(cls, h3, a)

\* SOAP.__init__: get_num_coefficients raises for a soap_type that is
\* neither RadialSpectrum nor PowerSpectrum
SOAP_init(a) ==
    LET cls == "SOAP"
        h1 == update_hyperparameters(cls, EmptyDict,
                 [interaction_cutoff |-> a.interaction_cutoff,
                  cutoff_smooth_width |-> a.cutoff_smooth_width,
                  max_radial |-> a.max_radial,
                  max_angular |-> a.max_angular,
                  gaussian_sigma_type |-> a.gaussian_sigma_type,
                  gaussian_sigma_constant |-> a.gaussian_sigma_constant,
                  n_species |-> a.n_species,
                  soap_type |-> a.soap_type,
                  normalize |-> a.normalize])
    IN  IF h1["soap_type"] \in {S("RadialSpectrum"), S("PowerSpectrum")}
        THEN Desc(cls, h1, a)
        ELSE Err("RuntimeError")

construct_descriptor(cls, a) ==
    CASE cls = "SphericalInvariants" -> SphericalInvariants_init(a)
      [] cls = "SphericalExpansion" -> SphericalExpansion_init(a)
      [] cls = "SOAP" -> SOAP_init(a)

-----------------------------------------------------------------------------
(* Descriptors: the constructions and updates of the model *)

HyperClasses == {"SphericalInvariants", "SphericalExpansion", "SOAP"}

\* the defaults of the constructors, with the required arguments set
DefaultArgs ==
    [interaction_cutoff |-> IntVal(3),
     cutoff_smooth_width |-> IntVal(1),
     max_radial |-> IntVal(2),
     max_angular |-> IntVal(1),
     gaussian_sigma_type |-> S("Constant"),
     gaussian_sigma_constant |-> S("0.3"),
     cutoff_function_type |-> S("ShiftedCosine"),
     soap_type |-> S("PowerSpectrum"),
     inversion_symmetry |-> Bool(TRUE),
     radial_basis |-> S("GTO"),
     normalize |-> Bool(TRUE),
     optimization_args |-> EmptyDict,
     species_list |-> S("environment wise"),
     compute_gradients |-> Bool(FALSE),
     cutoff_function_parameters |-> EmptyDict,
     coefficient_subselection |-> NoneV,
     expansion_by_species_method |-> NoneV,
     global_species |-> NoneV,
     n_species |-> IntVal(1)]

SoapTypes == {S("RadialSpectrum"), S("PowerSpectrum"), S("BiSpectrum"),
              S("Other")}
SpeciesLists == {S("environment wise"), S("structure wise"), S("bogus"),
                 List(<<>>), List(<<IntVal(1), IntVal(8)>>), IntVal(1)}
Subselections == {NoneV, Dict([a |-> List(<<IntVal(1)>>)])}

ConstructorArgs ==
    {[DefaultArgs EXCEPT !.soap_type = st, !.species_list = sl,
                         !.coefficient_subselection = cs] :
        st \in SoapTypes, sl \in SpeciesLists, cs \in Subselections}

\* keyword arguments of the later updates: keys that every class allows,
\* that some allow and that none allows
SampleKeys == {"max_radial", "soap_type", "n_species", "bogus"}
SampleValues == {IntVal(7), S("v")}
Keywords ==
    UNION {[K -> SampleValues] :
              K \in {X \in SUBSET SampleKeys : Cardinality(X) <= MaxUpdateKeys}}

HypInit ==
    /\ \E cls \in HyperClasses, a \in ConstructorArgs :
          hyp_desc = construct_descriptor(cls, a)
    /\ hyp_before = EmptyDict
    /\ hyp_kw = EmptyDict
    /\ hyp_pc = "built"

HypIdle ==
    /\ hyp_desc = NoneV
    /\ hyp_before = EmptyDict
    /\ hyp_kw = EmptyDict
    /\ hyp_pc = "idle"

\* descriptor.update_hyperparameters(**kw)
HypUpdate ==
    /\ hyp_pc \in {"built", "updated"}
    /\ ~ IsErr(hyp_desc)
    /\ \E kw \in Keywords :
          /\ hyp_kw' = kw
          /\ hyp_desc' = [hyp_desc EXCEPT !.hypers =
                             update_hyperparameters(hyp_desc.cls,
                                                    hyp_desc.hypers, kw)]
    /\ hyp_before' = hyp_desc.hypers
    /\ hyp_pc' = "updated"
    /\ UNCHANGED not_hyp_vars

HypNext == HypUpdate

-----------------------------------------------------------------------------
(* Claims about hyperparameters *)

\* C10: after construction and after every update_hyperparameters, the
\* hyperparameters hold keys of the allow-list of the class only; an
\* update raises nothing, stores the allowed keyword arguments, drops the
\* others and leaves every other key as it was
C10_OnlyAllowedKeys ==
    /\ hyp_pc \in {"built", "updated"} /\ ~ IsErr(hyp_desc)
          => DOMAIN hyp_desc.hypers \subseteq allowed_keys(hyp_desc.cls)
    /\ hyp_pc = "updated"
          => /\ ~ IsErr(hyp_desc)
             /\ \A k \in DOMAIN hyp_kw \cap allowed_keys(hyp_desc.cls) :
                   /\ k \in DOMAIN hyp_desc.hypers
                   /\ hyp_desc.hypers[k] = hyp_kw[k]
             /\ \A k \in DOMAIN hyp_before \ DOMAIN hyp_kw :
                   /\ k \in DOMAIN hyp_desc.hypers
                   /\ hyp_desc.hypers[k] = hyp_before[k]
             /\ DOMAIN hyp_desc.hypers \subseteq
                   DOMAIN hyp_before \cup DOMAIN hyp_kw

\* an update of a SphericalExpansion with an allowed and a foreign key:
\* the allowed one is stored and the foreign one is not
C10_Witness ==
    /\ hyp_pc = "updated"
    /\ hyp_desc.cls = "SphericalExpansion"
    /\ DOMAIN hyp_kw = {"max_radial", "soap_type"}
    /\ hyp_desc.hypers["max_radial"] = S("v")
    /\ hyp_before["max_radial"] = IntVal(2)
    /\ "soap_type" \notin DOMAIN hyp_desc.hypers


-----------------------------------------------------------------------------
(* Descriptors: the species_list parameter and its deprecated spelling *)

\* values given as species_list or global_species
SpeciesInputs ==
    SpeciesLists \cup {S("user defined"), Tup(<<IntVal(8), IntVal(1)>>),
                       NoneV}
\* values given as expansion_by_species_method
LegacyMethods == {NoneV, S("environment wise"), S("structure wise"),
                  S("user defined"), S("bogus")}
LegacySpecies == {NoneV, List(<<>>), List(<<IntVal(1), IntVal(8)>>),
                  IntVal(1)}

SpeciesArgs ==
    {[DefaultArgs EXCEPT !.species_list = sl,
                         !.expansion_by_species_method = m,
                         !.global_species = gs] :
        sl \in SpeciesInputs, m \in LegacyMethods, gs \in LegacySpecies}

SpInit ==
    /\ sp_cls \in DescriptorClasses
    /\ sp_args \in SpeciesArgs
    /\ sp_desc = NoneV
    /\ sp_warned = FALSE
    /\ sp_parsed = NoneV
    /\ sp_pc = "init"

SpIdle ==
    /\ sp_cls = ""
    /\ sp_args = EmptyDict
    /\ sp_desc = NoneV
    /\ sp_warned = FALSE
    /\ sp_parsed = NoneV
    /\ sp_pc = "idle"

\* SphericalInvariants(**args) or SphericalExpansion(**args)
SpConstruct ==
    /\ sp_pc = "init"
    /\ sp_desc' = construct_descriptor(sp_cls, sp_args)
    /\ sp_warned' = deprecation_warning(sp_args)
    /\ sp_pc' = "built"
    /\ UNCHANGED <<sp_cls, sp_args, sp_parsed>>
    /\ UNCHANGED not_sp_vars

\* _parse_species_list(species_list)
SpParse ==
    /\ sp_pc = "init"
    /\ sp_parsed' = parse_species_list(sp_args.species_list)
    /\ sp_pc' = "parsed"
    /\ UNCHANGED <<sp_cls, sp_args, sp_desc, sp_warned>>
    /\ UNCHANGED not_sp_vars

SpNext == SpConstruct \/ SpParse

-----------------------------------------------------------------------------
(* Claims about the species_list parameter *)

SpeciesModes == {S("environment wise"), S("structure wise")}

\* C11: _parse_species_list returns the expansion method with an empty
\* global species list for 'environment wise' and 'structure wise',
\* 'user defined' with the given species in the given order for a list or
\* tuple of species, and raises ValueError for any other string and for any
\* value that is not iterable
C11_SpeciesListParsing ==
    sp_pc = "parsed" =>
       LET sl == sp_args.species_list
       IN  /\ sl \in SpeciesModes =>
                 sp_parsed = Dict([expansion_by_species_method |-> sl,
                                   global_species |-> List(<<>>)])
           /\ sl.t = "list" =>
                 sp_parsed =
                    Dict([expansion_by_species_method |-> S("user defined"),
                          global_species |-> List(sl.l)])
           /\ sl.t = "tuple" =>
                 sp_parsed =
                    Dict([expansion_by_species_method |-> S("user defined"),
                          global_species |-> List(sl.tl)])
           /\ (sl.t = "str" /\ sl \notin SpeciesModes) =>
                 sp_parsed = Err("ValueError")
           /\ sl.t \in {"int", "none"} => sp_parsed = Err("ValueError")

\* a tuple of species in descending order was parsed and kept its order
C11_Witness ==
    /\ sp_pc = "parsed"
    /\ sp_args.species_list = Tup(<<IntVal(8), IntVal(1)>>)
    /\ sp_parsed.d["global_species"] = List(<<IntVal(8), IntVal(1)>>)

UsesLegacy(a) ==
    a.expansion_by_species_method # NoneV \/ a.global_species # NoneV

\* the single species_list value a deprecated spelling stands for
EquivalentSpeciesList(a) ==
    IF a.expansion_by_species_method # NoneV
       /\ a.expansion_by_species_method # S("user defined")
    THEN a.expansion_by_species_method
    ELSE a.global_species

\* the constructor arguments in the new spelling
EquivalentArgs(a) ==
    [a EXCEPT !.species_list = EquivalentSpeciesList(a),
              !.expansion_by_species_method = NoneV,
              !.global_species = NoneV]

UserDefinedWithoutSpecies(a) ==
    /\ a.expansion_by_species_method = S("user defined")
    /\ a.global_species = NoneV

\* C12 as stated: a construction with the deprecated parameters warns,
\* yields the hyperparameters of the construction with the equivalent
\* species_list, and fails for 'user defined' without global_species only
C12_LegacyFailsOnlyWithoutSpecies ==
    (sp_pc = "built" /\ UsesLegacy(sp_args)) =>
       /\ sp_warned
       /\ IsErr(sp_desc) <=> UserDefinedWithoutSpecies(sp_args)
       /\ ~ IsErr(sp_desc) =>
             sp_desc.hypers =
                construct_descriptor(sp_cls, EquivalentArgs(sp_args)).hypers

\* C12 amended: a construction with the deprecated parameters warns; it
\* raises ValueError for 'user defined' without global_species, and
\* otherwise does what the construction with the equivalent species_list
\* does: it raises when that one raises and yields equal hyperparameters
\* when it does not
C12_LegacyEquivalent ==
    (sp_pc = "built" /\ UsesLegacy(sp_args)) =>
       /\ sp_warned
       /\ IF UserDefinedWithoutSpecies(sp_args)
          THEN sp_desc = Err("ValueError")
          ELSE LET new == construct_descriptor(sp_cls,
                                               EquivalentArgs(sp_args))
               IN  IF IsErr(new)
                   THEN sp_desc = new
                   ELSE /\ ~ IsErr(sp_desc)
                        /\ sp_desc.hypers = new.hypers

\* global_species given alone: the species are taken as user defined
C12_Witness ==
    /\ sp_pc = "built"
    /\ sp_args.expansion_by_species_method = NoneV
    /\ sp_args.global_species = List(<<IntVal(1), IntVal(8)>>)
    /\ sp_args.species_list = S("environment wise")
    /\ sp_warned
    /\ ~ IsErr(sp_desc)
    /\ sp_desc.hypers["expansion_by_species_method"] = S("user defined")
    /\ sp_desc.hypers["global_species"] = List(<<IntVal(1), IntVal(8)>>)


-----------------------------------------------------------------------------
(* Descriptors: number of coefficients, species keys, feature index map *)

\* SphericalInvariants.get_num_coefficients(n_species)
SI_get_num_coefficients(hypers, n_species) ==
    LET soap_type == hypers["soap_type"]
        max_radial == hypers["max_radial"].i
        max_angular == hypers["max_angular"].i
    IN  IF soap_type = S("RadialSpectrum")
        THEN IntVal(n_species * max_radial)
        ELSE IF soap_type = S("PowerSpectrum")
        THEN IntVal(((n_species * (n_species + 1)) \div 2)
                    * max_radial ^ 2 * (max_angular + 1))
        ELSE IF soap_type = S("BiSpectrum")
        THEN IF ~ hypers["inversion_symmetry"].b
             THEN IntVal(n_species ^ 3 * max_radial ^ 3
                         * (1 + 2 * max_angular
                            + (3 * max_angular ^ 2 + max_angular ^ 3)
                                 \div 2))
             ELSE IntVal(n_species ^ 3 * max_radial ^ 3
                         * ((((max_angular + 1) ^ 2 + 1)
                             * (2 * (max_angular + 1) + 3)) \div 8))
        ELSE Err("ValueError")

\* SphericalExpansion.get_num_coefficients(n_species)
SE_get_num_coefficients(hypers, n_species) ==
    IntVal(n_species * hypers["max_radial"].i
           * (hypers["max_angular"].i + 1) ^ 2)

\* SOAP.get_num_coefficients()
SOAP_get_num_coefficients(hypers) ==
    IF hypers["soap_type"] = S("RadialSpectrum")
    THEN IntVal(hypers["n_species"].i * hypers["max_radial"].i)
    ELSE IF hypers["soap_type"] = S("PowerSpectrum")
    THEN IntVal(hypers["n_species"].i ^ 2 * hypers["max_radial"].i ^ 2
                * (hypers["max_angular"].i + 1))
    ELSE Err("RuntimeError")

\* descriptor.get_num_coefficients(n_species); SOAP takes no argument
get_num_coefficients(cls, hypers, n_species) ==
    CASE cls = "SphericalInvariants" ->
            SI_get_num_coefficients(hypers, n_species)
      [] cls = "SphericalExpansion" ->
            SE_get_num_coefficients(hypers, n_species)
      [] cls = "SOAP" -> SOAP_get_num_coefficients(hypers)

\* the concatenation of a sequence of sequences
RECURSIVE Flatten(_)
Flatten(ss) == IF ss = <<>> THEN <<>> ELSE Head(ss) \o Flatten(Tail(ss))

\* a list of species keys
Keys(k) == [t |-> "keys", k |-> k]

\* a get_keys without the final else branch
SI_get_keys_no_else(hypers, species) ==
    LET n == Len(species)
    IN  IF hypers["soap_type"] = S("RadialSpectrum")
        THEN Keys([i \in 1..n |-> <<species[i]>>])
        ELSE Keys(<<>>)

\* SphericalInvariants.get_keys(species): a list of keys, or the exception
SI_get_keys(hypers, species) ==
    LET n == Len(species)
        soap_type == hypers["soap_type"]
    IN  IF soap_type = S("RadialSpectrum")
        THEN Keys([i \in 1..n |-> <<species[i]>>])
        ELSE IF soap_type = S("PowerSpectrum")
        THEN Keys(Flatten([i \in 1..n |->
                Flatten([j \in 1..n |->
                   IF species[i] > species[j] THEN <<>>
                   ELSE << <<species[i], species[j]>> >>])]))
        ELSE IF soap_type = S("BiSpectrum")
        THEN Keys(Flatten([i \in 1..n |->
                Flatten([j \in 1..n |->
                   IF species[i] > species[j] THEN <<>>
                   ELSE Flatten([k \in 1..n |->
                           IF species[j] > species[k] THEN <<>>
                           ELSE << <<species[i], species[j],
                                     species[k]>> >>])])]))
        ELSE Err("ValueError")

\* SphericalExpansion.get_keys(species)
SE_get_keys(hypers, species) ==
    Keys([i \in 1..Len(species) |-> <<species[i]>>])

get_keys(cls, hypers, species) ==
    CASE cls = "SphericalInvariants" -> SI_get_keys(hypers, species)
      [] cls = "SphericalExpansion" -> SE_get_keys(hypers, species)

\* range(n)
Range(n) == [i \in 1..n |-> i - 1]

\* itertools.product of four sequences: the tuples, the last running fastest
Product4(s1, s2, s3, s4) ==
    Flatten([i \in 1..Len(s1) |->
       Flatten([j \in 1..Len(s2) |->
          Flatten([k \in 1..Len(s3) |->
             [m \in 1..Len(s4) |-> <<s1[i], s2[j], s3[k], s4[m]>>]])])])

\* an enumeration with the angular index outermost of the three
get_power_spectrum_index_mapping_l_first(sp_pairs, n_max, l_max) ==
    LET tuples == Product4(sp_pairs, Range(l_max), Range(n_max),
                           Range(n_max))
    IN  [i_feat \in 0..(Len(tuples) - 1) |->
            [a |-> tuples[i_feat + 1][1][1], b |-> tuples[i_feat + 1][1][2],
             n1 |-> tuples[i_feat + 1][3], n2 |-> tuples[i_feat + 1][4],
             l |-> tuples[i_feat + 1][2]]]

\* get_power_spectrum_index_mapping(sp_pairs, n_max, l_max): the dictionary
\* feat_idx2coeff_idx, i_feat counting the tuples of the product
get_power_spectrum_index_mapping(sp_pairs, n_max, l_max) ==
    LET tuples == Product4(sp_pairs, Range(n_max), Range(n_max),
                           Range(l_max))
    IN  [i_feat \in 0..(Len(tuples) - 1) |->
            [a |-> tuples[i_feat + 1][1][1], b |-> tuples[i_feat + 1][1][2],
             n1 |-> tuples[i_feat + 1][2], n2 |-> tuples[i_feat + 1][3],
             l |-> tuples[i_feat + 1][4]]]

\* the elements of a set of integers in ascending order
RECURSIVE SortedSeq(_)
SortedSeq(set) ==
    IF set = {} THEN <<>>
    ELSE LET lo == CHOOSE x \in set : \A y \in set : x <= y
         IN  <<lo>> \o SortedSeq(set \ {lo})

\* np.unique(species): the distinct elements in ascending order
np_unique(species) == SortedSeq({species[i] : i \in 1..Len(species)})

\* SphericalInvariants.get_feature_index_mapping(managers), managers a list
\* of ase.Atoms given by their atomic numbers
get_feature_index_mapping(hypers, managers) ==
    LET species == Flatten(managers)
        u_species == np_unique(species)
        sp_pairs == SI_get_keys(hypers, u_species)
        n_max == hypers["max_radial"].i
        l_max == hypers["max_angular"].i + 1
    IN  IF IsErr(sp_pairs) THEN sp_pairs
        ELSE IF hypers["soap_type"] = S("PowerSpectrum")
        THEN [t |-> "map",
              m |-> get_power_spectrum_index_mapping(sp_pairs.k, n_max,
                                                    l_max)]
        ELSE Err("NotImplementedError")

-----------------------------------------------------------------------------
(* Descriptors asked for their size, keys and index map *)

SpeciesIds == {1, 6, 8}

\* lists of species, repeats and descending order included
SpeciesSeqs == UNION {[1..n -> SpeciesIds] : n \in 0..MaxSpecies}

\* lists of structures, each given by its atomic numbers
ManagerLists ==
    {<<f>> : f \in SpeciesSeqs \ {<<>>}}
       \cup {<< <<8>>, <<1, 8>> >>, << <<6, 1>>, <<1>> >>}

CoefficientArgs ==
    {[DefaultArgs EXCEPT !.soap_type = st,
                         !.inversion_symmetry = Bool(inv),
                         !.max_radial = IntVal(nr),
                         !.max_angular = IntVal(la),
                         !.n_species = IntVal(ns)] :
        st \in SoapTypes, inv \in BOOLEAN, nr \in 1..MaxRadial,
        la \in 0..MaxAngular, ns \in 1..MaxSpecies}

CfInit ==
    /\ \E cls \in HyperClasses, a \in CoefficientArgs :
          /\ ~ IsErr(construct_descriptor(cls, a))
          /\ cf_cls = cls
          /\ cf_hypers = construct_descriptor(cls, a).hypers
    /\ cf_op = "init"
    /\ cf_arg = NoneV
    /\ cf_res = NoneV

CfIdle ==
    /\ cf_cls = ""
    /\ cf_hypers = EmptyDict
    /\ cf_op = "idle"
    /\ cf_arg = NoneV
    /\ cf_res = NoneV

\* descriptor.update_hyperparameters(soap_type=...)
CfUpdate ==
    /\ cf_op = "init"
    /\ \E st \in SoapTypes :
          /\ cf_arg' = st
          /\ cf_hypers' = update_hyperparameters(cf_cls, cf_hypers,
                                                 [soap_type |-> st])
    /\ cf_op' = "update"
    /\ cf_res' = NoneV
    /\ UNCHANGED cf_cls
    /\ UNCHANGED not_cf_vars

\* descriptor.get_num_coefficients(n_species)
CfNumCoefficients ==
    /\ cf_op \in {"init", "update"}
    /\ \E n_species \in 1..MaxSpecies :
          /\ cf_arg' = IF cf_cls = "SOAP" THEN NoneV ELSE IntVal(n_species)
          /\ cf_res' = get_num_coefficients(cf_cls, cf_hypers, n_species)
    /\ cf_op' = "num"
    /\ UNCHANGED <<cf_cls, cf_hypers>>
    /\ UNCHANGED not_cf_vars

\* descriptor.get_keys(species)
CfKeys ==
    /\ cf_op \in {"init", "update"}
    /\ cf_cls \in {"SphericalInvariants", "SphericalExpansion"}
    /\ \E species \in SpeciesSeqs :
          /\ cf_arg' = species
          /\ cf_res' = get_keys(cf_cls, cf_hypers, species)
    /\ cf_op' = "keys"
    /\ UNCHANGED <<cf_cls, cf_hypers>>
    /\ UNCHANGED not_cf_vars

\* descriptor.get_feature_index_mapping(managers)
CfMapping ==
    /\ cf_op \in {"init", "update"}
    /\ cf_cls = "SphericalInvariants"
    /\ \E managers \in ManagerLists :
          /\ cf_arg' = managers
          /\ cf_res' = get_feature_index_mapping(cf_hypers, managers)
    /\ cf_op' = "map"
    /\ UNCHANGED <<cf_cls, cf_hypers>>
    /\ UNCHANGED not_cf_vars

CfNext == CfUpdate \/ CfNumCoefficients \/ CfKeys \/ CfMapping

-----------------------------------------------------------------------------
(* Claims about coefficient counts, species keys and the index map *)

Families == {S("RadialSpectrum"), S("PowerSpectrum"), S("BiSpectrum")}

\* the number of unordered pairs of n species, self-pairs included
UnorderedPairs(n) == (n * (n + 1)) \div 2

\* C13: in SphericalInvariants and SOAP, get_num_coefficients returns
\* n_species * max_radial for RadialSpectrum and
\* n_species*(n_species+1)/2 * max_radial^2 * (max_angular+1) for
\* PowerSpectrum
C13_CoefficientCounts ==
    (cf_op = "num" /\ cf_cls \in {"SphericalInvariants", "SOAP"}) =>
       LET n == IF cf_cls = "SOAP" THEN cf_hypers["n_species"].i
                ELSE cf_arg.i
           nr == cf_hypers["max_radial"].i
           la == cf_hypers["max_angular"].i
       IN  /\ cf_hypers["soap_type"] = S("RadialSpectrum") =>
                 cf_res = IntVal(n * nr)
           /\ cf_hypers["soap_type"] = S("PowerSpectrum") =>
                 cf_res = IntVal(UnorderedPairs(n) * nr * nr * (la + 1))

\* the species a list of structures holds
DistinctSpecies(managers) ==
    {Flatten(managers)[i] : i \in 1..Len(Flatten(managers))}

\* C14: for RadialSpectrum, PowerSpectrum and BiSpectrum with and without
\* inversion symmetry, the feature index map enumerated over the keys of
\* get_keys has get_num_coefficients(n_species) entries, n_species the
\* number of distinct species
C14_CountMatchesEnumeration ==
    (cf_op = "map" /\ cf_hypers["soap_type"] \in Families) =>
       /\ ~ IsErr(cf_res)
       /\ IntVal(Cardinality(DOMAIN cf_res.m)) =
             SI_get_num_coefficients(cf_hypers,
                Cardinality(DistinctSpecies(cf_arg)))

\* C15: the feature index map has the indices 0..N-1, and the entry of the
\* p-th species key at (n1, n2, l), l in 0..max_angular, is at index
\* ((p*max_radial + n1)*max_radial + n2)*(max_angular+1) + l
C15_IndexMapOrder ==
    (cf_op = "map" /\ ~ IsErr(cf_res)) =>
       LET keys == SI_get_keys(cf_hypers,
                               SortedSeq(DistinctSpecies(cf_arg))).k
           nr == cf_hypers["max_radial"].i
           la == cf_hypers["max_angular"].i
           N == Len(keys) * nr * nr * (la + 1)
       IN  /\ DOMAIN cf_res.m = 0..(N - 1)
           /\ \A p \in 0..(Len(keys) - 1), n1 \in 0..(nr - 1),
                 n2 \in 0..(nr - 1), l \in 0..la :
                 cf_res.m[((p * nr + n1) * nr + n2) * (la + 1) + l] =
                    [a |-> keys[p + 1][1], b |-> keys[p + 1][2],
                     n1 |-> n1, n2 |-> n2, l |-> l]

\* a map over the three pairs of two species, two radial functions and
\* max_angular = 1: its 13th entry
C15_Witness ==
    /\ cf_op = "map"
    /\ cf_arg = << <<8>>, <<1, 8>> >>
    /\ ~ IsErr(cf_res)
    /\ cf_hypers["max_radial"] = IntVal(2)
    /\ cf_hypers["max_angular"] = IntVal(1)
    /\ cf_res.m[13] = [a |-> 1, b |-> 8, n1 |-> 1, n2 |-> 0, l |-> 1]
    /\ Cardinality(DOMAIN cf_res.m) = 24

NonDecreasing(key) == \A i \in 1..(Len(key) - 1) : key[i] <= key[i + 1]

KeyLength(soap_type) ==
    CASE soap_type = S("RadialSpectrum") -> 1
      [] soap_type = S("PowerSpectrum") -> 2
      [] soap_type = S("BiSpectrum") -> 3

\* C16: for any list of species, get_keys returns one key for every
\* unordered combination of the species, each in non-decreasing order, and
\* no combination twice
C16_OneKeyPerCombination ==
    (cf_op = "keys" /\ cf_cls = "SphericalInvariants" /\ ~ IsErr(cf_res)) =>
       LET keys == cf_res.k
           given == {cf_arg[i] : i \in 1..Len(cf_arg)}
           len == KeyLength(cf_hypers["soap_type"])
       IN  /\ \A i \in 1..Len(keys) : NonDecreasing(keys[i])
           /\ \A i, j \in 1..Len(keys) : i # j => keys[i] # keys[j]
           /\ {keys[i] : i \in 1..Len(keys)} =
                 {key \in [1..len -> given] : NonDecreasing(key)}

\* C17: with a soap_type outside the supported families,
\* get_num_coefficients and get_keys raise (ValueError in
\* SphericalInvariants, RuntimeError in SOAP) and return nothing
C17_UnsupportedFamilyFails ==
    /\ (/\ cf_op \in {"num", "keys"}
        /\ cf_cls = "SphericalInvariants"
        /\ cf_hypers["soap_type"] \notin Families)
          => cf_res = Err("ValueError")
    /\ (/\ cf_op = "num"
        /\ cf_cls = "SOAP"
        /\ cf_hypers["soap_type"] \notin
              {S("RadialSpectrum"), S("PowerSpectrum")})
          => cf_res = Err("RuntimeError")

\* get_keys of a SphericalInvariants whose soap_type was set to 'Other'
C17_Witness ==
    /\ cf_op = "keys"
    /\ cf_cls = "SphericalInvariants"
    /\ cf_hypers["soap_type"] = S("Other")
    /\ cf_arg = <<1, 8>>
    /\ cf_res = Err("ValueError")

-----------------------------------------------------------------------------
(* Claims about the failures of fps *)

\* C18: fps with a method other than 'simple' and 'voronoi' raises, calls
\* no selection backend and returns no selection
C18_UnknownMethodFails ==
    (fps_pc = "called" /\ fps_method \notin {"simple", "voronoi"}) =>
       /\ fps_first.status = "Exception"
       /\ fps_first.backend = "none"
       /\ "sparse_indices" \notin DOMAIN fps_first

C18_Witness ==
    /\ fps_pc = "called"
    /\ fps_method = "other"
    /\ fps_n1 = 2
    /\ Len(fps_fm) = 3
    /\ fps_first.status = "Exception"

\* C19: fps with n_select greater than the number of rows raises the bounds
\* error of the backend and returns no selection, with either method, in a
\* first call and in a restart
C19_TooManyRowsFails ==
    /\ (/\ fps_pc \in {"called", "restarted"}
        /\ fps_method \in {"simple", "voronoi"}
        /\ fps_n1 > Len(fps_fm))
          => /\ fps_first.status = "bounds_error"
             /\ "sparse_indices" \notin DOMAIN fps_first
    /\ (fps_pc = "restarted" /\ fps_n2 > Len(fps_fm))
          => /\ fps_second.status = "bounds_error"
             /\ "sparse_indices" \notin DOMAIN fps_second

C19_Witness ==
    /\ fps_pc = "called"
    /\ fps_method = "voronoi"
    /\ Len(fps_fm) = 2
    /\ fps_n1 = 3
    /\ fps_first.status = "bounds_error"


-----------------------------------------------------------------------------
(* fit_gap.py: the command line and the parameter document *)

\* the optional arguments of the parser: how the strings after the option
\* are read ("ints": nargs='+' with type=int, "int": type=int, "flag":
\* store_true, "str": one string) and the default
parser_options ==
    [n_train |-> [kind |-> "ints", default |-> NoneV],
     n_test |-> [kind |-> "int", default |-> NoneV],
     shuffle_file |-> [kind |-> "str", default |-> NoneV],
     print_residuals |-> [kind |-> "flag", default |-> Bool(FALSE)],
     write_residuals |-> [kind |-> "str", default |-> S("")],
     output_filename |-> [kind |-> "str", default |-> NoneV],
     soap_power |-> [kind |-> "int", default |-> IntVal(2)],
     energy_parameter_name |-> [kind |-> "str", default |-> S("energy")],
     force_parameter_name |-> [kind |-> "str", default |-> S("force")],
     description |-> [kind |-> "str", default |-> S("")],
     working_directory |->
        [kind |-> "str", default |-> S("potential_default")]]

\* int(string): the number, or ValueError
int_of(string) ==
    CASE string = "5" -> IntVal(5)
      [] string = "7" -> IntVal(7)
      [] OTHER -> Err("ValueError")

\* the value an option stores for the strings that follow it
option_value(kind, strings) ==
    CASE kind = "flag" -> Bool(TRUE)
      [] kind = "str" -> S(strings[1])
      [] kind = "int" -> int_of(strings[1])
      [] kind = "ints" ->
            IF \E i \in 1..Len(strings) : IsErr(int_of(strings[i]))
            THEN Err("ValueError")
            ELSE List([i \in 1..Len(strings) |-> int_of(strings[i])])

\* a parser that sets every default before it reads the command line
parse_args_resetting(argv, namespace) ==
    LET given == DOMAIN argv \ {"parameter_file"}
        value(dest) == option_value(parser_options[dest].kind, argv[dest])
    IN  IF \E dest \in given : IsErr(value(dest))
        THEN Err("SystemExit")
        ELSE [t |-> "namespace",
              ns |-> [dest \in DOMAIN namespace \cup DOMAIN parser_options
                              \cup {"parameter_file"} |->
                         IF dest = "parameter_file"
                         THEN S(argv["parameter_file"][1])
                         ELSE IF dest \in given THEN value(dest)
                         ELSE IF dest \in DOMAIN parser_options
                         THEN parser_options[dest].default
                         ELSE namespace[dest]]]

\* parser.parse_args(namespace=namespace): a default is set only for an
\* attribute the namespace does not have yet, then every option that is
\* given stores its value; a string that type=int rejects ends the program
parse_args(argv, namespace) ==
    LET given == DOMAIN argv \ {"parameter_file"}
        value(dest) == option_value(parser_options[dest].kind, argv[dest])
    IN  IF \E dest \in given : IsErr(value(dest))
        THEN Err("SystemExit")
        ELSE [t |-> "namespace",
              ns |-> [dest \in DOMAIN namespace \cup DOMAIN parser_options
                              \cup {"parameter_file"} |->
                         IF dest = "parameter_file"
                         THEN S(argv["parameter_file"][1])
                         ELSE IF dest \in given THEN value(dest)
                         ELSE IF dest \in DOMAIN namespace
                         THEN namespace[dest]
                         ELSE parser_options[dest].default]]

\* parse_command_line(): the command line is parsed once for the name of
\* the parameter file, the document becomes a namespace, and the command
\* line is parsed again into that namespace
parse_command_line(argv, files) ==
    LET args == parse_args(argv, EmptyDict)
    IN  IF IsErr(args) THEN args
        ELSE LET fit_parameters == files[args.ns["parameter_file"]]
             IN  parse_args(argv, fit_parameters)

ParameterFile == "params.json"

\* what may follow an option on the command line
OptionStrings(dest) ==
    CASE parser_options[dest].kind = "flag" -> {<<>>}
      [] parser_options[dest].kind = "str" -> {<<"cli">>}
      [] parser_options[dest].kind = "int" -> {<<"5">>, <<"x">>}
      [] parser_options[dest].kind = "ints" -> {<<"5">>, <<"7", "5">>}

\* what the document may hold under a key
DocumentValues(key) ==
    IF key \notin DOMAIN parser_options THEN {S("geoms.xyz")}
    ELSE CASE parser_options[key].kind = "flag" -> {Bool(TRUE), Bool(FALSE)}
           [] parser_options[key].kind = "str" -> {S("doc")}
           [] parser_options[key].kind = "int" -> {IntVal(9)}
           [] parser_options[key].kind = "ints" ->
                 {IntVal(9), List(<<IntVal(9), IntVal(3)>>)}

DocumentKeys == DOMAIN parser_options \cup {"structure_filename"}

CommandLines ==
    UNION {{[dest \in K \cup {"parameter_file"} |->
                IF dest = "parameter_file" THEN <<ParameterFile>>
                ELSE choice[dest]] :
              choice \in {c \in [K -> UNION {OptionStrings(d) : d \in K}] :
                             \A d \in K : c[d] \in OptionStrings(d)}} :
           K \in {X \in SUBSET DOMAIN parser_options :
                     Cardinality(X) <= MaxGiven}}

Documents ==
    UNION {{c \in [K -> UNION {DocumentValues(k) : k \in K}] :
               \A k \in K : c[k] \in DocumentValues(k)} :
           K \in {X \in SUBSET DocumentKeys : Cardinality(X) <= MaxSupplied}}

ClInit ==
    /\ cl_argv \in CommandLines
    /\ cl_doc \in Documents
    /\ cl_res = NoneV
    /\ cl_pc = "init"

ClIdle ==
    /\ cl_argv = EmptyDict
    /\ cl_doc = EmptyDict
    /\ cl_res = NoneV
    /\ cl_pc = "idle"

\* parse_command_line()
ClParse ==
    /\ cl_pc = "init"
    /\ cl_res' = parse_command_line(cl_argv,
                                    [f \in {S(ParameterFile)} |-> cl_doc])
    /\ cl_pc' = "parsed"
    /\ UNCHANGED <<cl_argv, cl_doc>>
    /\ UNCHANGED not_cl_vars

ClNext == ClParse

-----------------------------------------------------------------------------
(* Claims about the command line *)

ListedOptions ==
    {"n_train", "n_test", "output_filename", "print_residuals",
     "write_residuals", "soap_power", "energy_parameter_name",
     "force_parameter_name", "description", "working_directory"}

\* what the strings after an option say
GivenValue(dest, strings) ==
    LET number(string) == IF string = "5" THEN 5 ELSE 7
    IN  CASE dest = "n_train" ->
                List([i \in 1..Len(strings) |-> IntVal(number(strings[i]))])
          [] dest \in {"n_test", "soap_power"} -> IntVal(number(strings[1]))
          [] dest = "print_residuals" -> Bool(TRUE)
          [] OTHER -> S(strings[1])

ParserDefault(dest) ==
    CASE dest \in {"n_train", "n_test", "output_filename"} -> NoneV
      [] dest = "print_residuals" -> Bool(FALSE)
      [] dest \in {"write_residuals", "description"} -> S("")
      [] dest = "soap_power" -> IntVal(2)
      [] dest = "energy_parameter_name" -> S("energy")
      [] dest = "force_parameter_name" -> S("force")
      [] dest = "working_directory" -> S("potential_default")

\* C20: in what parse_command_line returns, every listed option holds the
\* value given on the command line, else the value of the parameter
\* document, else the default of the parser
C20_CommandLineOverrides ==
    (cl_pc = "parsed" /\ ~ IsErr(cl_res)) =>
       \A dest \in ListedOptions :
          /\ dest \in DOMAIN cl_res.ns
          /\ cl_res.ns[dest] =
                IF dest \in DOMAIN cl_argv
                THEN GivenValue(dest, cl_argv[dest])
                ELSE IF dest \in DOMAIN cl_doc THEN cl_doc[dest]
                ELSE ParserDefault(dest)

\* the kernel exponent given in both places and the description in the
\* document only
C20_Witness ==
    /\ cl_pc = "parsed"
    /\ DOMAIN cl_argv = {"parameter_file", "soap_power"}
    /\ ~ IsErr(cl_res)
    /\ cl_doc = [soap_power |-> IntVal(9), description |-> S("doc")]
    /\ cl_res.ns["soap_power"] = IntVal(5)
    /\ cl_res.ns["description"] = S("doc")
    /\ cl_res.ns["working_directory"] = S("potential_default")

-----------------------------------------------------------------------------
(* Descriptors: the arguments of the constructors and the init params *)

\* bool(v) of a Python value
truth(v) ==
    CASE v.t = "list" -> Len(v.l) > 0
      [] v.t = "tuple" -> Len(v.tl) > 0
      [] v.t = "dict" -> DOMAIN v.d # {}
      [] v.t = "none" -> FALSE
      [] v.t = "bool" -> v.b
      [] OTHER -> TRUE

\* SphericalInvariants._get_init_params
SI_get_init_params(desc) ==
    LET gaussian_density == desc.hypers["gaussian_density"]
        cutoff_function == desc.hypers["cutoff_function"]
        radial_contribution == desc.hypers["radial_contribution"]
        global_species == desc.hypers["global_species"]
        species_list == IF truth(global_species) THEN global_species
                        ELSE desc.hypers["expansion_by_species_method"]
        init_params ==
            [interaction_cutoff |-> cutoff_function.d["cutoff"].d["value"],
             cutoff_smooth_width |->
                 cutoff_function.d["smooth_width"].d["value"],
             max_radial |-> desc.hypers["max_radial"],
             max_angular |-> desc.hypers["max_angular"],
             soap_type |-> desc.hypers["soap_type"],
             inversion_symmetry |-> desc.hypers["inversion_symmetry"],
             normalize |-> desc.hypers["normalize"],
             species_list |-> species_list,
             compute_gradients |-> desc.hypers["compute_gradients"],
             gaussian_sigma_type |-> gaussian_density.d["type"],
             gaussian_sigma_constant |->
                 gaussian_density.d["gaussian_sigma"].d["value"],
             cutoff_function_type |-> cutoff_function.d["type"],
             radial_basis |-> radial_contribution.d["type"],
             optimization_args |-> Dict(desc.optimization_args),
             cutoff_function_parameters |->
                 Dict(desc.cutoff_function_parameters)]
    IN  IF "coefficient_subselection" \in DOMAIN desc.hypers
        THEN Dict(DictUpdate(init_params,
                  [coefficient_subselection |->
                      desc.hypers["coefficient_subselection"]]))
        ELSE Dict(init_params)

\* SphericalExpansion._get_init_params
SE_get_init_params(desc) ==
    LET gaussian_density == desc.hypers["gaussian_density"]
        cutoff_function == desc.hypers["cutoff_function"]
        radial_contribution == desc.hypers["radial_contribution"]
        global_species == desc.hypers["global_species"]
        species_list == IF truth(global_species) THEN global_species
                        ELSE desc.hypers["expansion_by_species_method"]
    IN  Dict([interaction_cutoff |-> cutoff_function.d["cutoff"].d["value"],
              cutoff_smooth_width |->
                  cutoff_function.d["smooth_width"].d["value"],
              max_radial |-> desc.hypers["max_radial"],
              max_angular |-> desc.hypers["max_angular"],
              species_list |-> species_list,
              compute_gradients |-> desc.hypers["compute_gradients"],
              gaussian_sigma_type |-> gaussian_density.d["type"],
              gaussian_sigma_constant |->
                  gaussian_density.d["gaussian_sigma"].d["value"],
              cutoff_function_type |-> cutoff_function.d["type"],
              radial_basis |-> radial_contribution.d["type"],
              optimization_args |-> Dict(desc.optimization_args),
              cutoff_function_parameters |->
                  Dict(desc.cutoff_function_parameters)])

\* desc._get_init_params()
descriptor_get_init_params(desc) ==
    IF desc.cls = "SphericalInvariants" THEN SI_get_init_params(desc)
    ELSE SE_get_init_params(desc)

\* the objects that were passed as cutoff_function_parameters and as
\* optimization_args, after cls(**a): __init__ copies
\* cutoff_function_parameters and then calls update() on the object that
\* was passed; SphericalInvariants does so after it parsed species_list,
\* SphericalExpansion before; optimization_args is only bound anew
arguments_after_init(cls, a) ==
    [cutoff_function_parameters |->
        IF cls = "SphericalExpansion" \/ ~ IsErr(construct_descriptor(cls, a))
        THEN DictUpdate(a.cutoff_function_parameters,
                 [interaction_cutoff |-> a.interaction_cutoff,
                  cutoff_smooth_width |-> a.cutoff_smooth_width])
        ELSE a.cutoff_function_parameters,
     optimization_args |-> a.optimization_args]

MaxConstructions == 2

CtClasses == {"SphericalInvariants", "SphericalExpansion"}

\* cutoff_function_parameters=dict() and optimization_args={} of the
\* signatures
SignatureDefaults ==
    [cutoff_function_parameters |-> EmptyDict,
     optimization_args |-> EmptyDict]

\* what a caller passes for the two parameters
CallerArguments ==
    {[cutoff_function_parameters |-> p, optimization_args |-> o] :
        p \in {EmptyDict, [rate |-> IntVal(1)]},
        o \in {EmptyDict, [type |-> S("Spline")]}}

CtSpeciesLists == {S("environment wise"), S("structure wise"), S("bogus"),
                   List(<<>>),
                   List(<<IntVal(1), IntVal(8)>>)}
CtCutoffs == {IntVal(3), IntVal(4)}

CtInit ==
    /\ ct_default = [c \in CtClasses |-> SignatureDefaults]
    /\ ct_caller \in CallerArguments
    /\ ct_log = <<>>

CtIdle ==
    /\ ct_default = <<>>
    /\ ct_caller = <<>>
    /\ ct_log = <<>>

\* cls(interaction_cutoff=ic, species_list=sl, ...), the two dictionary
\* parameters left out or given as the dictionaries the caller holds
CtConstruct ==
    /\ Len(ct_log) < MaxConstructions
    /\ \E cls \in CtClasses, omitted \in BOOLEAN,
          sl \in CtSpeciesLists, ic \in CtCutoffs :
          LET passed == IF omitted THEN ct_default[cls] ELSE ct_caller
              a == [DefaultArgs EXCEPT
                       !.species_list = sl,
                       !.interaction_cutoff = ic,
                       !.cutoff_function_parameters =
                           passed.cutoff_function_parameters,
                       !.optimization_args = passed.optimization_args]
              after == arguments_after_init(cls, a)
          IN  /\ ct_log' = Append(ct_log,
                     [cls |-> cls, omitted |-> omitted, species_list |-> sl,
                      interaction_cutoff |-> ic, passed |-> passed,
                      after |-> after,
                      desc |-> construct_descriptor(cls, a)])
              /\ ct_default' = IF omitted
                               THEN [ct_default EXCEPT ![cls] = after]
                               ELSE ct_default
              /\ ct_caller' = IF omitted THEN ct_caller ELSE after
    /\ UNCHANGED not_ct_vars

CtNext == CtConstruct

-----------------------------------------------------------------------------
(* Claims about the arguments of the constructors and the init params *)

\* C27: a construction leaves the dictionaries that were passed for
\* cutoff_function_parameters and optimization_args as they were, the
\* defaults of the signatures stay empty, and two descriptors of one class
\* that were constructed with the same arguments, the two dictionaries
\* left out, report the same init params
C27_ConstructionLeavesArguments ==
    /\ \A i \in DOMAIN ct_log : ct_log[i].after = ct_log[i].passed
    /\ \A c \in DOMAIN ct_default : ct_default[c] = SignatureDefaults
    /\ \A i \in DOMAIN ct_log : \A j \in DOMAIN ct_log :
          (/\ ct_log[i].cls = ct_log[j].cls
           /\ ct_log[i].omitted /\ ct_log[j].omitted
           /\ ct_log[i].species_list = ct_log[j].species_list
           /\ ct_log[i].interaction_cutoff = ct_log[j].interaction_cutoff
           /\ ~ IsErr(ct_log[i].desc))
             => descriptor_get_init_params(ct_log[i].desc)
                   = descriptor_get_init_params(ct_log[j].desc)

\* C28: the species_list in the init params of a descriptor that was
\* constructed with 'environment wise' or a list of species, the empty
\* list included, parses to the expansion_by_species_method and the
\* global_species the descriptor holds
C28_ReportedSpeciesListParses ==
    \A i \in DOMAIN ct_log :
       (ct_log[i].species_list # S("bogus"))
          => /\ ~ IsErr(ct_log[i].desc)
             /\ LET reported ==
                        descriptor_get_init_params(ct_log[i].desc)
                            .d["species_list"]
                    parsed == parse_species_list(reported)
                IN  /\ ~ IsErr(parsed)
                    /\ parsed.d["expansion_by_species_method"] =
                          ct_log[i].desc.hypers["expansion_by_species_method"]
                    /\ parsed.d["global_species"] =
                          ct_log[i].desc.hypers["global_species"]

-----------------------------------------------------------------------------
(* The fitting script: fit_save_model *)

\* the number of structures in the structure file
NGeoms == 3

\* ase.io.read(parameters.structure_filename, ":"): of each structure the
\* number of its atoms and the atomic numbers that occur in it
source_geoms ==
    [i \in 1..NGeoms |->
        [natoms |-> (i % 2) + 1,
         species |-> IF i % 2 = 1 THEN {1, 8} ELSE {1}]]

\* natoms_source = [len(geom) for geom in source_geoms]
natoms_source == [i \in 1..NGeoms |-> source_geoms[i].natoms]

\* sum(natoms_source[i] for i in idx)
RECURSIVE sum_natoms(_)
sum_natoms(idx) ==
    IF idx = {} THEN 0
    ELSE LET i == CHOOSE j \in idx : TRUE
         IN  natoms_source[i] + sum_natoms(idx \ {i})

\* max(l) of a list of integers
list_max(l) ==
    CHOOSE m \in {l[i].i : i \in 1..Len(l)} :
        \A i \in 1..Len(l) : l[i].i <= m

\* _get_energy_baseline(energy_baseline_in, source_geoms)
get_energy_baseline(energy_baseline_in, geoms) ==
    IF energy_baseline_in.t = "dict" THEN energy_baseline_in
    ELSE LET all_species == UNION {geoms[i].species : i \in DOMAIN geoms}
         IN  Dict([species \in all_species |-> energy_baseline_in])

\* a call _get_energy_baseline(*args): the function has two positional
\* parameters and no defaults
get_energy_baseline_call(args) ==
    IF Len(args) = 2 THEN get_energy_baseline(args[1], args[2])
    ELSE Err("TypeError")

\* _get_n_train(n_train_in, n_test_in, n_geoms): the local n_train is
\* bound only when n_train_in is None
get_n_train(n_train_in, n_test_in, n_geoms) ==
    LET n_train == IF n_train_in = NoneV THEN <<n_geoms>> ELSE <<>>
        do_learning_curve == n_train_in.t = "list"
        n_test == IF n_test_in = NoneV
                  THEN IF do_learning_curve
                       THEN IntVal(n_geoms - list_max(n_train_in.l))
                       ELSE IF n_train = <<>> THEN Err("UnboundLocalError")
                       ELSE IntVal(n_geoms - n_train[1])
                  ELSE n_test_in
        n_train_all == IF n_train = <<>> THEN Err("UnboundLocalError")
                       ELSE IF do_learning_curve THEN IntVal(n_train[1])
                       ELSE List(<<IntVal(n_train[1])>>)
    IN  IF IsErr(n_test) THEN n_test
        ELSE IF IsErr(n_train_all) THEN n_train_all
        ELSE [t |-> "tuple3", n_train_all |-> n_train_all,
              n_test |-> n_test, do_learning_curve |-> do_learning_curve]

\* the number of rows kernel_forces[slice(-k, None)] selects
rows_from_end(k, n_rows) == IF k = 0 \/ k > n_rows THEN n_rows ELSE k

\* the test set of one pass of the loop of fit_save_model: the structures
\* of test_subset and the number of rows of kernel_forces_test
test_selection(n_test, n_train) ==
    LET test_subset == IF n_test > 0
                       THEN {i \in 1..NGeoms : i > NGeoms - n_test}
                       ELSE {i \in 1..NGeoms : i > n_train}
    IN  [test_subset |-> test_subset,
         force_rows |-> rows_from_end(3 * sum_natoms(test_subset),
                                      3 * sum_natoms(1..NGeoms))]

\* a file that was written: by which session, into which directory
File(by, dir, name) == [by |-> by, dir |-> dir, name |-> name]

\* one pass of the loop of fit_save_model
fit_one(s, parameters, WORKDIR, n_train) ==
    [n_train |-> n_train,
     train |-> {i \in 1..NGeoms : i <= n_train},
     files |-> {File(s, WORKDIR, <<"weights">>),
                File(s, "cwd", <<parameters.output_filename, n_train>>)},
     residuals |-> IF parameters.print_residuals
                   THEN <<test_selection(parameters.n_test.i, n_train)>>
                   ELSE <<>>]

\* fit_save_model from the energies on: the baseline, the loop over
\* parameters.n_train, the files written and the residuals
fit_save_model_rest(s, parameters, WORKDIR) ==
    LET energy_baseline ==
            get_energy_baseline_call(<<parameters.atom_energy_baseline>>)
        fits == [i \in 1..Len(parameters.n_train.l) |->
                    fit_one(s, parameters, WORKDIR,
                            parameters.n_train.l[i].i)]
    IN  IF IsErr(energy_baseline) THEN [res |-> energy_baseline, files |-> {}]
        ELSE IF parameters.print_residuals /\ parameters.n_test = NoneV
        THEN [res |-> Err("TypeError"), files |-> {}]
        ELSE IF parameters.n_train = NoneV
        THEN [res |-> Err("TypeError"), files |-> {}]
        ELSE [res |-> [t |-> "fit", energy_baseline |-> energy_baseline,
                       fits |-> fits],
              files |-> UNION {fits[i].files : i \in DOMAIN fits}]

\* gaptools.calculate_and_sparsify and gaptools.compute_kernels: the
\* kernels are written into the directory the attribute WORKDIR of the
\* module names when they run
gaptools_compute_kernels(s, workdir) == {File(s, workdir, <<"kernels">>)}

Sessions == {1, 2}
WorkingDirectory(s) == IF s = 1 THEN "wd1" ELSE "wd2"

\* the parameters of a session
Parameters(s) ==
    [working_directory : {WorkingDirectory(s)},
     n_train : {NoneV, List(<<IntVal(1)>>),
                List(<<IntVal(1), IntVal(2)>>)},
     n_test : {NoneV, IntVal(0), IntVal(1)},
     atom_energy_baseline : {IntVal(0),
                             Dict([sp \in {1, 8} |-> IntVal(0)])},
     print_residuals : BOOLEAN,
     output_filename : {"model"}]

FtInit ==
    /\ ft_params \in [Sessions -> UNION {Parameters(s) : s \in Sessions}]
    /\ \A s \in Sessions : ft_params[s] \in Parameters(s)
    /\ ft_pc = [s \in Sessions |-> "start"]
    /\ ft_local = [s \in Sessions |-> [WORKDIR |-> NoneV, split |-> NoneV]]
    /\ ft_res = [s \in Sessions |-> NoneV]
    /\ ft_files = {}
    /\ gaptools_WORKDIR = NoneV

FtIdle ==
    /\ ft_params = <<>>
    /\ ft_pc = <<>>
    /\ ft_local = <<>>
    /\ ft_res = <<>>
    /\ ft_files = {}
    /\ gaptools_WORKDIR = NoneV

\* fit_save_model: WORKDIR = parameters.working_directory;
\* gaptools.WORKDIR = WORKDIR; os.makedirs(WORKDIR, exist_ok=True)
FtEnter(s) ==
    /\ ft_pc[s] = "start"
    /\ ft_local' = [ft_local EXCEPT
                       ![s].WORKDIR = ft_params[s].working_directory]
    /\ gaptools_WORKDIR' = ft_params[s].working_directory
    /\ ft_pc' = [ft_pc EXCEPT ![s] = "entered"]
    /\ UNCHANGED <<ft_params, ft_res, ft_files>>
    /\ UNCHANGED not_ft_vars

\* fit_save_model: the structures are read and _get_n_train is called; an
\* exception ends the session
FtRead(s) ==
    /\ ft_pc[s] = "entered"
    /\ LET split == get_n_train(ft_params[s].n_train, ft_params[s].n_test,
                                Len(source_geoms))
       IN  /\ ft_local' = [ft_local EXCEPT ![s].split = split]
           /\ ft_res' = IF IsErr(split) THEN [ft_res EXCEPT ![s] = split]
                        ELSE ft_res
           /\ ft_pc' = [ft_pc EXCEPT
                           ![s] = IF IsErr(split) THEN "failed" ELSE "read"]
    /\ UNCHANGED <<ft_params, ft_files, gaptools_WORKDIR>>
    /\ UNCHANGED not_ft_vars

\* fit_save_model: gaptools.calculate_and_sparsify and
\* gaptools.compute_kernels
FtKernels(s) ==
    /\ ft_pc[s] = "read"
    /\ ft_files' = ft_files \cup gaptools_compute_kernels(s, gaptools_WORKDIR)
    /\ ft_pc' = [ft_pc EXCEPT ![s] = "kernels"]
    /\ UNCHANGED <<ft_params, ft_local, ft_res, gaptools_WORKDIR>>
    /\ UNCHANGED not_ft_vars

\* fit_save_model: the rest, up to its return or its exception
FtFit(s) ==
    /\ ft_pc[s] = "kernels"
    /\ LET r == fit_save_model_rest(s, ft_params[s], ft_local[s].WORKDIR)
       IN  /\ ft_res' = [ft_res EXCEPT ![s] = r.res]
           /\ ft_files' = ft_files \cup r.files
    /\ ft_pc' = [ft_pc EXCEPT ![s] = "done"]
    /\ UNCHANGED <<ft_params, ft_local, gaptools_WORKDIR>>
    /\ UNCHANGED not_ft_vars

FtNext ==
    \E s \in Sessions : FtEnter(s) \/ FtRead(s) \/ FtKernels(s) \/ FtFit(s)

-----------------------------------------------------------------------------
(* Claims about fit_save_model *)

\* C21: while a session is between its entry and its fit, the working
\* directory gaptools uses is the working directory of that session, and
\* every kernel and weights file a session wrote is in the working
\* directory of that session
C21_OwnWorkingDirectory ==
    /\ \A s \in DOMAIN ft_pc :
          ft_pc[s] \in {"entered", "read", "kernels"}
             => gaptools_WORKDIR = ft_params[s].working_directory
    /\ \A f \in ft_files :
          f.name \in {<<"kernels">>, <<"weights">>}
             => f.dir = ft_params[f.by].working_directory

\* C23: a fit_save_model that has ended after its kernels has fitted, with
\* the baseline mapping as given, or with the scalar for every species of
\* the structures
C23_BaselineCoversSpecies ==
    \A s \in DOMAIN ft_pc :
       ft_pc[s] = "done"
          => /\ ~ IsErr(ft_res[s])
             /\ ft_res[s].energy_baseline =
                   IF ft_params[s].atom_energy_baseline.t = "dict"
                   THEN ft_params[s].atom_energy_baseline
                   ELSE Dict([sp \in {1, 8} |->
                                 ft_params[s].atom_energy_baseline])

\* C26: _get_n_train returns the sizes the options document: without
\* --n-test the test set is what remains after the largest training set,
\* without --n-train all structures are used; and a fit that has ended
\* has fitted one model on the first n structures for each n and written
\* it to the output file name formatted with n
C26_TrainTestDefaults ==
    \A s \in DOMAIN ft_pc :
       /\ ft_pc[s] \in {"read", "kernels", "done", "failed"}
             => /\ ~ IsErr(ft_local[s].split)
                /\ ft_local[s].split.n_train_all =
                      IF ft_params[s].n_train = NoneV
                      THEN List(<<IntVal(NGeoms)>>)
                      ELSE ft_params[s].n_train
                /\ ft_local[s].split.n_test =
                      IF ft_params[s].n_test # NoneV
                      THEN ft_params[s].n_test
                      ELSE IF ft_params[s].n_train = NoneV THEN IntVal(0)
                      ELSE IntVal(NGeoms
                                    - list_max(ft_params[s].n_train.l))
       /\ ft_pc[s] = "done"
             => /\ ~ IsErr(ft_res[s])
                /\ LET ns == ft_local[s].split.n_train_all.l
                   IN  /\ Len(ft_res[s].fits) = Len(ns)
                       /\ \A i \in DOMAIN ns :
                             /\ ft_res[s].fits[i].train = 1..ns[i].i
                             /\ File(s, "cwd", <<"model", ns[i].i>>)
                                   \in ft_files

\* C29: a fit_save_model that was asked for residuals has ended with one
\* test set per training-set size, and the rows of the force kernel it
\* selected are three for every atom of the structures of the test set
C29_ResidualRows ==
    \A s \in DOMAIN ft_pc :
       (ft_pc[s] = "done" /\ ft_params[s].print_residuals)
          => /\ ~ IsErr(ft_res[s])
             /\ \A i \in DOMAIN ft_res[s].fits :
                   LET sel == ft_res[s].fits[i].residuals[1]
                   IN  sel.force_rows = 3 * sum_natoms(sel.test_subset)

-----------------------------------------------------------------------------
(* Specifications *)

InitFps == FpsInit /\ IoIdle /\ HypIdle /\ SpIdle /\ CfIdle /\ ClIdle
              /\ CtIdle /\ FtIdle
SpecFps == InitFps /\ [][FpsNext]_vars

InitIO == IoInit /\ FpsIdle /\ HypIdle /\ SpIdle /\ CfIdle /\ ClIdle
              /\ CtIdle /\ FtIdle
SpecIO == InitIO /\ [][IoNext]_vars

InitHyp == HypInit /\ FpsIdle /\ IoIdle /\ SpIdle /\ CfIdle /\ ClIdle
              /\ CtIdle /\ FtIdle
SpecHyp == InitHyp /\ [][HypNext]_vars

InitSp == SpInit /\ FpsIdle /\ IoIdle /\ HypIdle /\ CfIdle /\ ClIdle
              /\ CtIdle /\ FtIdle
SpecSp == InitSp /\ [][SpNext]_vars

InitCf == CfInit /\ FpsIdle /\ IoIdle /\ HypIdle /\ SpIdle /\ ClIdle
              /\ CtIdle /\ FtIdle
SpecCf == InitCf /\ [][CfNext]_vars

InitCl == ClInit /\ FpsIdle /\ IoIdle /\ HypIdle /\ SpIdle /\ CfIdle
              /\ CtIdle /\ FtIdle
SpecCl == InitCl /\ [][ClNext]_vars

InitCt == CtInit /\ FpsIdle /\ IoIdle /\ HypIdle /\ SpIdle /\ CfIdle
              /\ ClIdle /\ FtIdle
SpecCt == InitCt /\ [][CtNext]_vars

InitFit == FtInit /\ FpsIdle /\ IoIdle /\ HypIdle /\ SpIdle /\ CfIdle
              /\ ClIdle /\ CtIdle
SpecFit == InitFit /\ [][FtNext]_vars

=============================================================================
